---- MODULE Spec2Model ----
(***************************************************************************)
(* Cashfree Payments plugin: the authentication utilities (auth_utils.py)  *)
(* and the request tools that use them or build their headers inline.      *)
(* One tool invocation at a time (single-threaded, synchronous); the       *)
(* network and the clock are the environment.                              *)
(***************************************************************************)
EXTENDS Integers, Sequences, FiniteSets, TLC

VARIABLES
    credentials,  \* self.runtime.credentials: map from field name to value
    pc,           \* "idle" | "await_auth" | "await_api" | "done"
    inv,          \* the running invocation: what it was called with and what it holds
    net,          \* HTTP requests sent by the running invocation, with their responses
    results,      \* messages yielded to the host by the running invocation
    outcome,      \* how the call ended: "none" | "returned" | "raised"
    exc,          \* the exception that left the call, when it raised
    authSeq,      \* authorize exchanges answered with a token so far
    lastToken     \* the token the authorize server issued most recently ("": none yet)

vars == <<credentials, pc, inv, net, results, outcome, exc, authSeq, lastToken>>

----------------------------------------------------------------------------
(* Bounds of the model *)
MaxExchanges == 2    \* tokens the authorize server issues in a run
MaxDeviations == 2   \* credential fields that differ from a complete configuration

(* Facts of the environment the code relies on *)
KeyBytes == 256      \* a 2048-bit RSA key
Sha1Bytes == 20      \* OAEP hash output length
EpochDigits == 10    \* decimal digits of int(time.time())

----------------------------------------------------------------------------
(* Python values *)
NoneVal == "<None>"
NoneKey == <<"<None>">>
(* a JSON number where a string is expected: truthy, and x[:20] raises TypeError *)
NumberVal == "<number>"

Rep(c, n) == [i \in 1..n |-> c]

RECURSIVE RepStr(_, _)
RepStr(s, n) == IF n = 0 THEN "" ELSE s \o RepStr(s, n - 1)

(* dict.get(k, default) *)
Get(d, k, default) == IF k \in DOMAIN d THEN d[k] ELSE default

(* bool(d.get(k)) for a credentials field *)
Truthy(d, k) ==
    /\ k \in DOMAIN d
    /\ IF k = "cashfree_public_key" THEN d[k] /= <<>> ELSE d[k] /= ""

(* d[k] = v *)
Put(d, k, v) == (k :> v) @@ d

----------------------------------------------------------------------------
(* Public key text: a sequence of tokens.                                  *)
(*   "BEGIN", "END"  the armor lines -----BEGIN/END PUBLIC KEY-----        *)
(*   " ", "\t", "\n", "\r"  whitespace                                     *)
(*   "k1", "k2"  base64 groups; k1 k2 in this order is the DER of the key  *)
(*   "e1"        a base64 group; alone it is the DER of an EC public key   *)
(*   "zz"        a base64 group that is not part of the key                *)
(*   "!"         a character outside the base64 alphabet                   *)
WhiteSpace == {" ", "\t", "\n", "\r"}
Base64Groups == {"k1", "k2", "e1", "zz"}
ValidDer == <<"k1", "k2">>
EcDer == <<"e1">>

RECURSIVE LStrip(_)
LStrip(s) == IF s /= <<>> /\ Head(s) \in WhiteSpace THEN LStrip(Tail(s)) ELSE s

RECURSIVE RStrip(_)
RStrip(s) ==
    IF s /= <<>> /\ s[Len(s)] \in WhiteSpace THEN RStrip(SubSeq(s, 1, Len(s) - 1)) ELSE s

(* str.strip() *)
Strip(s) == RStrip(LStrip(s))

(* str.replace(x, '') for every x in a set of tokens *)
Remove(s, drop) == SelectSeq(s, LAMBDA c : c \notin drop)

(* base64.b64decode(s): characters outside the alphabet are discarded *)
b64decode(s) == SelectSeq(s, LAMBDA c : c \in Base64Groups)

(* serialization.load_der_public_key: any SubjectPublicKeyInfo loads, RSA ("K") or not ("E") *)
load_der_public_key(bytes) ==
    IF bytes = ValidDer THEN [ok |-> TRUE, key |-> "K"]
    ELSE IF bytes = EcDer THEN [ok |-> TRUE, key |-> "E"]
    ELSE [ok |-> FALSE, key |-> "none"]

parse_public_key(public_key_content) ==
    IF public_key_content = NoneKey
    THEN [ok |-> FALSE, key |-> "none"]
    ELSE LET cleaned1 == Strip(public_key_content)
             cleaned2 == Remove(cleaned1, {"\t", "\n", "\r"})
             cleaned3 == Remove(cleaned2, {"BEGIN", "END"})
             cleaned4 == Strip(cleaned3)
         IN  load_der_public_key(b64decode(cleaned4))

----------------------------------------------------------------------------
(* Signature: RSA-OAEP(SHA-1) of "<client_id>.<epoch>", base64 encoded *)
OaepMaxPlain == KeyBytes - 2 * Sha1Bytes - 2

PlainLen(client_id) == Len(client_id) + 1 + EpochDigits

(* only an RSA key object has the method encrypt *)
HasEncrypt(key) == key = "K"

(* base64.b64encode of n bytes: the characters it has, the '=' among them *)
b64encode_chars(n) == 4 * ((n + 2) \div 3)
b64encode_padding(n) == (3 - (n % 3)) % 3

(* public_key.encrypt(data, OAEP): a ciphertext as long as the modulus;   *)
(* base64.b64encode(encrypted_data).decode('utf-8')                        *)
Signature(key, plaintext) ==
    [ok |-> TRUE, err |-> "", sig |-> "b64(" \o key \o ":" \o plaintext \o ")",
     chars |-> b64encode_chars(KeyBytes), padding |-> b64encode_padding(KeyBytes)]

NoSignature(err) == [ok |-> FALSE, err |-> err, sig |-> "", chars |-> 0, padding |-> 0]

(* a signer that encrypts the client id alone *)
generate_signature_without_timestamp(client_id, public_key_content, epoch) ==
    LET cid == IF client_id = NoneVal THEN "None" ELSE client_id
        parsed == parse_public_key(public_key_content)
    IN  IF ~parsed.ok THEN NoSignature("parse")
        ELSE IF ~HasEncrypt(parsed.key) \/ PlainLen(cid) > OaepMaxPlain
        THEN NoSignature("encrypt")
        ELSE Signature(parsed.key, cid)

generate_signature(client_id, public_key_content, epoch) ==
    LET cid == IF client_id = NoneVal THEN "None" ELSE client_id
        parsed == parse_public_key(public_key_content)
    IN  IF ~parsed.ok THEN NoSignature("parse")
        ELSE IF ~HasEncrypt(parsed.key) \/ PlainLen(cid) > OaepMaxPlain
        THEN NoSignature("encrypt")
        ELSE Signature(parsed.key, cid \o "." \o ToString(epoch))

----------------------------------------------------------------------------
(* HTTP *)
NoBody == [none |-> TRUE]
NoResp == [received |-> FALSE]
TransportFailure == [received |-> TRUE, transport |-> TRUE]
HttpResp(status, body) ==
    [received |-> TRUE, transport |-> FALSE, status |-> status, body |-> body]

Request(kind, method, host, path, headers, body) ==
    [kind |-> kind, method |-> method, host |-> host, path |-> path,
     headers |-> headers, body |-> body]

(* a sender that repeats the request once *)
SendWithRetry(log, req) ==
    Append(Append(log, [req |-> req, resp |-> TransportFailure]), [req |-> req, resp |-> NoResp])

(* requests.post / requests.get: the request leaves, the response is awaited *)
Send(log, req) == Append(log, [req |-> req, resp |-> NoResp])

(* the response to the request sent last *)
Receive(log, resp) == [log EXCEPT ![Len(log)].resp = resp]

PayoutProd == "https://payout-api.cashfree.com"
PayoutSandbox == "https://payout-gamma.cashfree.com"
PgProd == "https://api.cashfree.com/pg"
PgSandbox == "https://sandbox.cashfree.com/pg"

----------------------------------------------------------------------------
(* a token exchanger that presents a signature made once, at epoch 0 *)
BearerTokenRequestStaleSignature(creds, epoch) ==
    LET environment == Get(creds, "cashfree_environment", "sandbox")
        client_id == Get(creds, "cashfree_client_id", NoneVal)
        client_secret == Get(creds, "cashfree_client_secret", NoneVal)
        public_key == Get(creds, "cashfree_public_key", NoneKey)
        signature == generate_signature(client_id, public_key, 0)
        host == IF environment = "production" THEN PayoutProd ELSE PayoutSandbox
        headers == ("Content-Type" :> "application/json")
                   @@ ("X-Client-Id" :> client_id)
                   @@ ("X-Client-Secret" :> client_secret)
                   @@ ("X-Cf-Signature" :> signature.sig)
    IN  IF ~signature.ok
        THEN [ok |-> FALSE,
              err |-> "Bearer token retrieval failed: Failed to generate signature",
              req |-> NoBody]
        ELSE [ok |-> TRUE, err |-> "",
              req |-> Request("authorize", "POST", host, "/payout/v1/authorize",
                              headers, NoBody)]

(* a token exchanger that takes every environment but 'sandbox' for production *)
BearerTokenRequestSandboxByName(creds, epoch) ==
    LET environment == Get(creds, "cashfree_environment", "sandbox")
        client_id == Get(creds, "cashfree_client_id", NoneVal)
        client_secret == Get(creds, "cashfree_client_secret", NoneVal)
        public_key == Get(creds, "cashfree_public_key", NoneKey)
        signature == generate_signature(client_id, public_key, epoch)
        host == IF environment = "sandbox" THEN PayoutSandbox ELSE PayoutProd
        headers == ("Content-Type" :> "application/json")
                   @@ ("X-Client-Id" :> client_id)
                   @@ ("X-Client-Secret" :> client_secret)
                   @@ ("X-Cf-Signature" :> signature.sig)
    IN  IF ~signature.ok
        THEN [ok |-> FALSE,
              err |-> "Bearer token retrieval failed: Failed to generate signature",
              req |-> NoBody]
        ELSE [ok |-> TRUE, err |-> "",
              req |-> Request("authorize", "POST", host, "/payout/v1/authorize",
                              headers, NoBody)]

(* get_bearer_token, up to the authorize request *)
BearerTokenRequest(creds, epoch) ==
    LET environment == Get(creds, "cashfree_environment", "sandbox")
        client_id == Get(creds, "cashfree_client_id", NoneVal)
        client_secret == Get(creds, "cashfree_client_secret", NoneVal)
        public_key == Get(creds, "cashfree_public_key", NoneKey)
        signature == generate_signature(client_id, public_key, epoch)
        api_host == IF environment = "production" THEN PayoutProd ELSE PayoutSandbox
        headers == ("Content-Type" :> "application/json")
                   @@ ("X-Client-Id" :> client_id)
                   @@ ("X-Client-Secret" :> client_secret)
                   @@ ("X-Cf-Signature" :> signature.sig)
    IN  IF ~signature.ok
        THEN [ok |-> FALSE,
              err |-> "Bearer token retrieval failed: Failed to generate signature",
              req |-> NoBody]
        ELSE [ok |-> TRUE, err |-> "",
              req |-> Request("authorize", "POST", api_host, "/payout/v1/authorize",
                              headers, NoBody)]

(* a token exchanger that does not look at the status code *)
BearerTokenResultAnyStatus(resp) ==
    IF resp.transport
    THEN [ok |-> FALSE, token |-> "", err |-> "Bearer token retrieval failed: transport"]
    ELSE IF resp.body.shape = "object" /\ resp.body.data = "object" /\ resp.body.hasToken
            /\ resp.body.token \notin {"", NumberVal}
    THEN [ok |-> TRUE, token |-> resp.body.token, err |-> ""]
    ELSE [ok |-> FALSE, token |-> "",
          err |-> "Bearer token retrieval failed: Bearer token not found in response"]

(* a token exchanger that returns data.token without testing it *)
BearerTokenResultUntested(resp) ==
    IF resp.transport
    THEN [ok |-> FALSE, token |-> "", err |-> "Bearer token retrieval failed: transport"]
    ELSE IF resp.status = 200 /\ resp.body.shape = "object" /\ resp.body.data = "object"
            /\ resp.body.token /= NumberVal
    THEN [ok |-> TRUE, token |-> resp.body.token, err |-> ""]
    ELSE [ok |-> FALSE, token |-> "",
          err |-> "Bearer token retrieval failed: Failed to get bearer token. Status"]

(* get_bearer_token, from the authorize response on *)
BearerTokenResult(resp) ==
    LET fail(msg) == [ok |-> FALSE, token |-> "", err |-> "Bearer token retrieval failed: " \o msg]
    IN  IF resp.transport THEN fail("transport")
        ELSE IF resp.status = 200
        THEN IF resp.body.shape = "non_json" THEN fail("response.json()")
             ELSE IF resp.body.shape = "list" THEN fail("no attribute get")
             ELSE IF resp.body.data = "null" THEN fail("no attribute get")
             ELSE IF resp.body.data = "absent" \/ ~resp.body.hasToken
                     \/ resp.body.token = ""
             THEN fail("Bearer token not found in response")
             ELSE IF resp.body.token = NumberVal THEN fail("not subscriptable")
             ELSE [ok |-> TRUE, token |-> resp.body.token, err |-> ""]
        ELSE fail("Failed to get bearer token. Status")

----------------------------------------------------------------------------
(* base headers whose version header ignores is_payout_api *)
BaseHeadersAnyApi(creds, include_api_version, is_payout_api) ==
    LET headers == ("Content-Type" :> "application/json")
    IN  IF include_api_version
        THEN Put(headers, "X-Api-Version", Get(creds, "cashfree_api_version", "2025-01-01"))
        ELSE headers

(* get_auth_headers, lines 142-148 *)
BaseHeaders(creds, include_api_version, is_payout_api) ==
    LET headers == ("Content-Type" :> "application/json")
    IN  IF include_api_version /\ ~is_payout_api
        THEN Put(headers, "X-Api-Version", Get(creds, "cashfree_api_version", "2025-01-01"))
        ELSE headers

(* client headers that also carry the static bearer token *)
ClientHeadersWithBearer(creds, headers) ==
    IF "cashfree_client_id" \notin DOMAIN creds \/ "cashfree_client_secret" \notin DOMAIN creds
    THEN [step |-> "raise", err |-> "KeyError", headers |-> headers, req |-> NoBody]
    ELSE [step |-> "return", err |-> "",
          headers |-> Put(Put(Put(headers, "X-Client-Id", creds["cashfree_client_id"]),
                              "X-Client-Secret", creds["cashfree_client_secret"]),
                          "Authorization", "Bearer " \o Get(creds, "bearer_token", "None")),
          req |-> NoBody]

(* headers["X-Client-Id"] = credentials["cashfree_client_id"] ... (KeyError when absent) *)
ClientHeaders(creds, headers) ==
    IF "cashfree_client_id" \notin DOMAIN creds \/ "cashfree_client_secret" \notin DOMAIN creds
    THEN [step |-> "raise", err |-> "KeyError", headers |-> headers, req |-> NoBody]
    ELSE [step |-> "return", err |-> "",
          headers |-> Put(Put(headers, "X-Client-Id", creds["cashfree_client_id"]),
                          "X-Client-Secret", creds["cashfree_client_secret"]),
          req |-> NoBody]

(* a header builder that fetches a token under public_key whatever the API *)
get_auth_headers_always_fetch(creds, include_api_version, is_payout_api, epoch) ==
    LET auth_method == Get(creds, "auth_method", "client_credentials")
        headers == BaseHeaders(creds, include_api_version, is_payout_api)
    IN  IF auth_method = "client_credentials" THEN ClientHeaders(creds, headers)
        ELSE IF auth_method = "public_key"
        THEN LET b == BearerTokenRequest(creds, epoch)
             IN  IF b.ok
                 THEN [step |-> "authorize", err |-> "", headers |-> headers, req |-> b.req]
                 ELSE [step |-> "raise", err |-> b.err, headers |-> headers, req |-> NoBody]
        ELSE [step |-> "return", err |-> "", headers |-> headers, req |-> NoBody]

(* get_auth_headers up to its return, its raise or the authorize request *)
get_auth_headers(creds, include_api_version, is_payout_api, epoch) ==
    LET auth_method == Get(creds, "auth_method", "client_credentials")
        headers == BaseHeaders(creds, include_api_version, is_payout_api)
    IN  IF auth_method = "client_credentials" THEN ClientHeaders(creds, headers)
        ELSE IF auth_method = "public_key"
        THEN IF is_payout_api
             THEN LET b == BearerTokenRequest(creds, epoch)
                  IN  IF b.ok
                      THEN [step |-> "authorize", err |-> "", headers |-> headers, req |-> b.req]
                      ELSE [step |-> "raise", err |-> b.err, headers |-> headers, req |-> NoBody]
             ELSE ClientHeaders(creds, headers)
        ELSE [step |-> "return", err |-> "", headers |-> headers, req |-> NoBody]

(* a header builder that stores the token it fetched in the credentials map *)
credentials_caching_token(creds, bearer_token) ==
    IF bearer_token /= "" THEN Put(creds, "bearer_token", bearer_token) ELSE creds

(* get_bearer_token returns the token and get_auth_headers puts it in a     *)
(* fresh headers dict: the credentials map they were given is only read     *)
credentials_after_authorize(creds, bearer_token) == creds

(* a header builder that keeps presenting the first token it obtained *)
WithCachedBearer(headers, bearer_token) ==
    Put(headers, "Authorization",
        "Bearer " \o (IF lastToken /= "" THEN lastToken ELSE bearer_token))

(* headers["Authorization"] = f"Bearer {bearer_token}" *)
WithBearer(headers, bearer_token) == Put(headers, "Authorization", "Bearer " \o bearer_token)

----------------------------------------------------------------------------
(* Tool parameters.  A string is a sequence of characters; "https://" and  *)
(* "http://" stand for the characters of the URL scheme.                   *)
CharLen(c) == IF c = "https://" THEN 8 ELSE IF c = "http://" THEN 7 ELSE 1

(* len(s) *)
StrLen(s) ==
    Len(s) + (CharLen("https://") - 1) * Cardinality({i \in DOMAIN s : s[i] = "https://"})
           + (CharLen("http://") - 1) * Cardinality({i \in DOMAIN s : s[i] = "http://"})

Alnum == {"a", "0"}
IdChars == Alnum \cup {"_", "-"}
PhoneChars == {"0", "+", "-", "(", ")", " ", "\t", "\n", "\r"}

(* re.match(r'^[class]+$', s): $ also matches before one trailing newline *)
ReMatchAll(s, class) ==
    LET core == IF s /= <<>> /\ s[Len(s)] = "\n" /\ "\n" \notin class
                THEN SubSeq(s, 1, Len(s) - 1) ELSE s
    IN  /\ core /= <<>>
        /\ \A i \in 1..Len(core) : core[i] \in class

(* re.match(r'^[^@]+@[^@]+\.[^@]+$', s) *)
ReMatchEmail(s) ==
    \E i \in 1..Len(s) :
        /\ s[i] = "@"
        /\ \A j \in 1..Len(s) : s[j] = "@" => j = i
        /\ i > 1
        /\ \E j \in (i + 2)..(Len(s) - 1) : s[j] = "."

(* s.startswith('https://') *)
StartsWithHttps(s) == s /= <<>> /\ Head(s) = "https://"

(* An amount as the host passes it: a number or a string, in hundredths *)
Num(c) == [py |-> "num", ok |-> TRUE, cents |-> c, nan |-> FALSE]
StrNum(c) == [py |-> "str", ok |-> TRUE, cents |-> c, nan |-> FALSE]
StrBad == [py |-> "str", ok |-> FALSE, cents |-> 0, nan |-> FALSE]
StrNan == [py |-> "str", ok |-> TRUE, cents |-> 0, nan |-> TRUE]

AmountKeys == {"order_amount", "link_amount", "link_minimum_partial_amount",
               "refund_amount", "amount"}
DateKeys == {"linkExpiry"}
FlagKeys == {"link_partial_payments", "notifyCustomer"}

(* bool(tool_parameters.get(k)) *)
PTruthy(p, k) ==
    /\ k \in DOMAIN p
    /\ CASE k \in AmountKeys -> (p[k].py = "str" \/ p[k].nan \/ p[k].cents /= 0)
         [] k \in DateKeys -> TRUE
         [] k \in FlagKeys -> p[k]
         [] OTHER -> p[k] /= <<>>

(* [key for key, value in required_params.items() if not value] is not empty *)
Missing(p, required) == \E k \in required : ~PTruthy(p, k)

(* float(x) < bound, float(x) <= bound, both in hundredths *)
Below(a, cents) == ~a.nan /\ a.cents < cents
AtMost(a, cents) == ~a.nan /\ a.cents <= cents

(* datetime.strptime(link_expiry, "%Y/%m/%d") succeeds *)
StrptimeOk(d) == d.form \in {"padded", "unpadded"}

SecondsOf(day, tod) == day * 86400 + tod

----------------------------------------------------------------------------
(* Validation of each tool: "" when the parameters pass, else the message *)
validate_create_order(p) ==
    IF Missing(p, {"order_amount", "customer_id", "customer_email", "customer_phone",
                   "customer_name"})
    THEN "Fatal Error: Required parameters missing"
    ELSE IF ~p["order_amount"].ok THEN "Fatal Error: order_amount must be a valid number"
    ELSE IF Below(p["order_amount"], 100) THEN "Fatal Error: order_amount must be at least 1"
    ELSE IF PTruthy(p, "order_id") /\ ~(3 <= StrLen(p["order_id"]) /\ StrLen(p["order_id"]) <= 45)
    THEN "Fatal Error: order_id must be between 3 and 45 characters"
    ELSE IF PTruthy(p, "order_id") /\ ~ReMatchAll(p["order_id"], IdChars)
    THEN "Fatal Error: order_id can only contain alphanumeric characters, '_' and '-'"
    ELSE IF PTruthy(p, "order_note")
            /\ ~(3 <= StrLen(p["order_note"]) /\ StrLen(p["order_note"]) <= 200)
    THEN "Fatal Error: order_note must be between 3 and 200 characters"
    ELSE IF PTruthy(p, "return_url") /\ StrLen(p["return_url"]) > 250
    THEN "Fatal Error: return_url must not exceed 250 characters"
    ELSE IF PTruthy(p, "notify_url") /\ StrLen(p["notify_url"]) > 250
    THEN "Fatal Error: notify_url must not exceed 250 characters"
    ELSE IF PTruthy(p, "notify_url") /\ ~StartsWithHttps(p["notify_url"])
    THEN "Fatal Error: notify_url must use HTTPS protocol"
    ELSE ""

(* a link validator that does not compare the partial amount with the amount *)
validate_create_payment_link_no_partial_check(p) ==
    IF Missing(p, {"link_id", "link_amount", "link_purpose", "customer_phone"})
    THEN "Fatal Error: Required parameters missing"
    ELSE IF ~(1 <= StrLen(p["link_id"]) /\ StrLen(p["link_id"]) <= 50)
    THEN "Fatal Error: link_id must be between 1 and 50 characters"
    ELSE IF ~ReMatchAll(p["link_id"], IdChars)
    THEN "Fatal Error: link_id can only contain alphanumeric characters, '_' and '-'"
    ELSE IF ~p["link_amount"].ok THEN "Fatal Error: link_amount must be a valid number"
    ELSE IF AtMost(p["link_amount"], 0) THEN "Fatal Error: link_amount must be greater than 0"
    ELSE IF StrLen(p["link_purpose"]) > 500
    THEN "Fatal Error: link_purpose must not exceed 500 characters"
    ELSE IF PTruthy(p, "link_minimum_partial_amount")
            /\ ~p["link_minimum_partial_amount"].ok
    THEN "Fatal Error: link_minimum_partial_amount must be a valid number"
    ELSE IF PTruthy(p, "return_url") /\ StrLen(p["return_url"]) > 250
    THEN "Fatal Error: return_url must not exceed 250 characters"
    ELSE IF PTruthy(p, "notify_url") /\ ~StartsWithHttps(p["notify_url"])
    THEN "Fatal Error: notify_url must use HTTPS protocol"
    ELSE ""

validate_create_payment_link(p) ==
    IF Missing(p, {"link_id", "link_amount", "link_purpose", "customer_phone"})
    THEN "Fatal Error: Required parameters missing"
    ELSE IF ~(1 <= StrLen(p["link_id"]) /\ StrLen(p["link_id"]) <= 50)
    THEN "Fatal Error: link_id must be between 1 and 50 characters"
    ELSE IF ~ReMatchAll(p["link_id"], IdChars)
    THEN "Fatal Error: link_id can only contain alphanumeric characters, '_' and '-'"
    ELSE IF ~p["link_amount"].ok THEN "Fatal Error: link_amount must be a valid number"
    ELSE IF AtMost(p["link_amount"], 0) THEN "Fatal Error: link_amount must be greater than 0"
    ELSE IF StrLen(p["link_purpose"]) > 500
    THEN "Fatal Error: link_purpose must not exceed 500 characters"
    ELSE IF PTruthy(p, "link_minimum_partial_amount")
            /\ ~p["link_minimum_partial_amount"].ok
    THEN "Fatal Error: link_minimum_partial_amount must be a valid number"
    ELSE IF PTruthy(p, "link_minimum_partial_amount")
            /\ ~p["link_minimum_partial_amount"].nan /\ ~p["link_amount"].nan
            /\ p["link_minimum_partial_amount"].cents >= p["link_amount"].cents
    THEN "Fatal Error: link_minimum_partial_amount must be less than link_amount"
    ELSE IF PTruthy(p, "return_url") /\ StrLen(p["return_url"]) > 250
    THEN "Fatal Error: return_url must not exceed 250 characters"
    ELSE IF PTruthy(p, "notify_url") /\ ~StartsWithHttps(p["notify_url"])
    THEN "Fatal Error: notify_url must use HTTPS protocol"
    ELSE ""

(* the same text in src/tools/create_refund.py and                         *)
(* src/cashfree_payments/tools/create_refund.py                            *)
validate_create_refund(p) ==
    IF Missing(p, {"order_id", "refund_amount", "refund_id"})
    THEN "Fatal Error: Required parameters missing"
    ELSE IF ~p["refund_amount"].ok THEN "Fatal Error: refund_amount must be a valid number"
    ELSE IF AtMost(p["refund_amount"], 0)
    THEN "Fatal Error: refund_amount must be greater than 0"
    ELSE IF ~(3 <= StrLen(p["refund_id"]) /\ StrLen(p["refund_id"]) <= 40)
    THEN "Fatal Error: refund_id must be between 3 and 40 characters"
    ELSE IF ~ReMatchAll(p["refund_id"], Alnum)
    THEN "Fatal Error: refund_id must contain only alphanumeric characters"
    ELSE IF PTruthy(p, "refund_note")
            /\ ~(3 <= StrLen(p["refund_note"]) /\ StrLen(p["refund_note"]) <= 100)
    THEN "Fatal Error: refund_note must be between 3 and 100 characters"
    ELSE IF PTruthy(p, "refund_speed") /\ p["refund_speed"] \notin {<<"STANDARD">>, <<"INSTANT">>}
    THEN "Fatal Error: refund_speed must be either 'STANDARD' or 'INSTANT'"
    ELSE ""

validate_order_id_only(p) ==
    IF ~PTruthy(p, "order_id")
    THEN "Fatal Error: order_id is required but was not provided."
    ELSE ""

validate_cancel_payment_link(p) ==
    IF ~PTruthy(p, "link_id") THEN "Fatal Error: link_id is required"
    ELSE IF ~(1 <= StrLen(p["link_id"]) /\ StrLen(p["link_id"]) <= 50)
    THEN "Fatal Error: link_id must be between 1 and 50 characters"
    ELSE IF ~ReMatchAll(p["link_id"], IdChars)
    THEN "Fatal Error: link_id can only contain alphanumeric characters, '_' and '-'"
    ELSE ""

(* status = tool_parameters.get("status", "PAID") *)
StatusOf(p) == Get(p, "status", <<"PAID">>)

validate_get_payment_link_orders(p) ==
    IF ~PTruthy(p, "link_id") THEN "Fatal Error: link_id is required but was not provided."
    ELSE IF StatusOf(p) /= <<>> /\ StatusOf(p) \notin {<<"ALL">>, <<"PAID">>}
    THEN "Fatal Error: status must be either 'ALL' or 'PAID'"
    ELSE ""

validate_cashgram_id(p) ==
    IF ~(1 <= StrLen(p["cashgramId"]) /\ StrLen(p["cashgramId"]) <= 35)
    THEN "Fatal Error: cashgramId must be between 1 and 35 characters"
    ELSE IF ~ReMatchAll(p["cashgramId"], IdChars)
    THEN "Fatal Error: cashgramId can only contain alphanumeric characters, '_' and '-'"
    ELSE ""

(* a cashgram validator that lets an expiry equal to the current instant pass *)
validate_create_cashgram_not_before(p, now) ==
    IF Missing(p, {"cashgramId", "amount", "name", "phone", "linkExpiry"})
    THEN "Fatal Error: Required parameters missing"
    ELSE IF validate_cashgram_id(p) /= "" THEN validate_cashgram_id(p)
    ELSE IF ~p["amount"].ok THEN "Fatal Error: amount must be a valid number"
    ELSE IF Below(p["amount"], 100) THEN "Fatal Error: amount must be >= 1.00"
    ELSE IF ~StrptimeOk(p["linkExpiry"])
    THEN "Fatal Error: linkExpiry must be in YYYY/MM/DD format"
    ELSE IF SecondsOf(p["linkExpiry"].day, 0) < SecondsOf(now.day, now.tod)
    THEN "Fatal Error: linkExpiry must be a future date"
    ELSE IF SecondsOf(p["linkExpiry"].day, 0) > SecondsOf(now.day + 30, now.tod)
    THEN "Fatal Error: linkExpiry cannot be more than 30 days from today"
    ELSE IF Strip(p["name"]) = <<>> THEN "Fatal Error: name cannot be empty"
    ELSE IF ~ReMatchAll(p["phone"], PhoneChars)
    THEN "Fatal Error: phone number contains invalid characters"
    ELSE IF PTruthy(p, "email") /\ ~ReMatchEmail(p["email"])
    THEN "Fatal Error: Invalid email format"
    ELSE ""

validate_create_cashgram(p, now) ==
    IF Missing(p, {"cashgramId", "amount", "name", "phone", "linkExpiry"})
    THEN "Fatal Error: Required parameters missing"
    ELSE IF validate_cashgram_id(p) /= "" THEN validate_cashgram_id(p)
    ELSE IF ~p["amount"].ok THEN "Fatal Error: amount must be a valid number"
    ELSE IF Below(p["amount"], 100) THEN "Fatal Error: amount must be >= 1.00"
    ELSE IF ~StrptimeOk(p["linkExpiry"])
    THEN "Fatal Error: linkExpiry must be in YYYY/MM/DD format"
    ELSE IF SecondsOf(p["linkExpiry"].day, 0) <= SecondsOf(now.day, now.tod)
    THEN "Fatal Error: linkExpiry must be a future date"
    ELSE IF SecondsOf(p["linkExpiry"].day, 0) > SecondsOf(now.day + 30, now.tod)
    THEN "Fatal Error: linkExpiry cannot be more than 30 days from today"
    ELSE IF Strip(p["name"]) = <<>> THEN "Fatal Error: name cannot be empty"
    ELSE IF ~ReMatchAll(p["phone"], PhoneChars)
    THEN "Fatal Error: phone number contains invalid characters"
    ELSE IF PTruthy(p, "email") /\ ~ReMatchEmail(p["email"])
    THEN "Fatal Error: Invalid email format"
    ELSE ""

validate_deactivate_cashgram(p) ==
    IF ~PTruthy(p, "cashgramId") THEN "Fatal Error: cashgramId is required"
    ELSE validate_cashgram_id(p)

----------------------------------------------------------------------------
(* The tools.  create_refund_pg is src/cashfree_payments/tools/create_refund.py, *)
(* create_refund is src/tools/create_refund.py.                            *)
InlineTools == {"create_order", "create_payment_link", "create_refund_pg",
                "get_order_refunds", "get_order", "cancel_payment_link"}
PayoutTools == {"create_cashgram", "deactivate_cashgram"}
HelperTools == {"create_refund", "get_payment_link_orders"} \cup PayoutTools
Tools == InlineTools \cup HelperTools

validate(tool, p, now) ==
    CASE tool = "create_order" -> validate_create_order(p)
      [] tool = "create_payment_link" -> validate_create_payment_link(p)
      [] tool \in {"create_refund", "create_refund_pg"} -> validate_create_refund(p)
      [] tool \in {"get_order", "get_order_refunds"} -> validate_order_id_only(p)
      [] tool = "cancel_payment_link" -> validate_cancel_payment_link(p)
      [] tool = "get_payment_link_orders" -> validate_get_payment_link_orders(p)
      [] tool = "create_cashgram" -> validate_create_cashgram(p, now)
      [] tool = "deactivate_cashgram" -> validate_deactivate_cashgram(p)

AuthMethod(creds) == Get(creds, "auth_method", "client_credentials")

(* "2. Retrieve Credentials" of the tools that build their headers inline *)
check_credentials_inline(creds) ==
    IF AuthMethod(creds) = "client_credentials"
       /\ ~(Truthy(creds, "cashfree_client_id") /\ Truthy(creds, "cashfree_client_secret"))
    THEN "Fatal Error: Cashfree client credentials (Client ID/Secret) are missing."
    ELSE IF AuthMethod(creds) = "bearer_token" /\ ~Truthy(creds, "bearer_token")
    THEN "Fatal Error: Cashfree bearer token is missing."
    ELSE ""

(* "2. Retrieve Credentials" of the tools that call get_auth_headers *)
check_credentials_helper(creds) ==
    IF AuthMethod(creds) = "client_credentials"
       /\ ~(Truthy(creds, "cashfree_client_id") /\ Truthy(creds, "cashfree_client_secret"))
    THEN "Fatal Error: Cashfree client credentials (Client ID/Secret) are missing."
    ELSE IF AuthMethod(creds) = "public_key"
            /\ \E f \in {"cashfree_client_id", "cashfree_client_secret", "cashfree_public_key"} :
                   ~Truthy(creds, f)
    THEN "Fatal Error: Missing required fields for public key auth"
    ELSE ""

(* raise ToolProviderCredentialValidationError(message) *)
ValidationError(message) ==
    [type |-> "ToolProviderCredentialValidationError", message |-> message]

(* a validator that accepts any environment name *)
validate_credentials_any_environment(creds) ==
    LET missing(fields) == {f \in fields : ~Truthy(creds, f)}
    IN  IF ~Truthy(creds, "cashfree_environment")
        THEN ValidationError("Missing required field: cashfree_environment")
        ELSE IF AuthMethod(creds) = "client_credentials"
        THEN IF missing({"cashfree_client_id", "cashfree_client_secret"}) /= {}
             THEN ValidationError("Missing required field for client credentials")
             ELSE [type |-> "none", message |-> ""]
        ELSE IF AuthMethod(creds) = "public_key"
        THEN IF missing({"cashfree_client_id", "cashfree_client_secret",
                         "cashfree_public_key"}) /= {}
             THEN ValidationError("Missing required field for public key signature")
             ELSE IF ~parse_public_key(creds["cashfree_public_key"]).ok
             THEN ValidationError("Invalid public key format")
             ELSE [type |-> "none", message |-> ""]
        ELSE ValidationError("Invalid authentication method")

(* a validator that lets the parser's ValueError through *)
validate_credentials_unwrapped(creds) ==
    LET missing(fields) == {f \in fields : ~Truthy(creds, f)}
    IN  IF ~Truthy(creds, "cashfree_environment")
        THEN ValidationError("Missing required field: cashfree_environment")
        ELSE IF creds["cashfree_environment"] \notin {"sandbox", "production"}
        THEN ValidationError("Environment must be 'sandbox' or 'production'")
        ELSE IF AuthMethod(creds) = "client_credentials"
        THEN IF missing({"cashfree_client_id", "cashfree_client_secret"}) /= {}
             THEN ValidationError("Missing required field for client credentials")
             ELSE [type |-> "none", message |-> ""]
        ELSE IF AuthMethod(creds) = "public_key"
        THEN IF missing({"cashfree_client_id", "cashfree_client_secret",
                         "cashfree_public_key"}) /= {}
             THEN ValidationError("Missing required field for public key signature")
             ELSE IF ~parse_public_key(creds["cashfree_public_key"]).ok
             THEN [type |-> "ValueError", message |-> "Failed to parse public key"]
             ELSE [type |-> "none", message |-> ""]
        ELSE ValidationError("Invalid authentication method")

(* CashfreePaymentsProvider._validate_credentials: the exception it raises, *)
(* or none when the credentials are accepted                                *)
validate_credentials(creds) ==
    LET missing(fields) == {f \in fields : ~Truthy(creds, f)}
    IN  IF ~Truthy(creds, "cashfree_environment")
        THEN ValidationError("Missing required field: cashfree_environment")
        ELSE IF creds["cashfree_environment"] \notin {"sandbox", "production"}
        THEN ValidationError("Environment must be 'sandbox' or 'production'")
        ELSE IF AuthMethod(creds) = "client_credentials"
        THEN IF missing({"cashfree_client_id", "cashfree_client_secret"}) /= {}
             THEN ValidationError("Missing required field for client credentials")
             ELSE [type |-> "none", message |-> ""]
        ELSE IF AuthMethod(creds) = "public_key"
        THEN IF missing({"cashfree_client_id", "cashfree_client_secret",
                         "cashfree_public_key"}) /= {}
             THEN ValidationError("Missing required field for public key signature")
             ELSE IF ~parse_public_key(creds["cashfree_public_key"]).ok
             THEN ValidationError("Invalid public key format")
             ELSE [type |-> "none", message |-> ""]
        ELSE ValidationError("Invalid authentication method")

check_credentials(tool, creds) ==
    IF tool \in InlineTools THEN check_credentials_inline(creds)
    ELSE check_credentials_helper(creds)

(* inline headers with another default API version *)
inline_headers_other_default(tool, creds) ==
    LET base == ("Accept" :> "application/json")
                @@ ("x-api-version" :> Get(creds, "cashfree_api_version", "2023-08-01"))
        typed == IF tool \in {"get_order", "get_order_refunds"} THEN base
                 ELSE Put(base, "Content-Type", "application/json")
        headers == IF tool = "get_order" THEN typed ELSE Put(typed, "x-request-id", "uuid4")
    IN  IF AuthMethod(creds) = "client_credentials"
        THEN Put(Put(headers, "x-client-id", Get(creds, "cashfree_client_id", NoneVal)),
                 "x-client-secret", Get(creds, "cashfree_client_secret", NoneVal))
        ELSE IF AuthMethod(creds) = "bearer_token"
        THEN Put(headers, "Authorization", "Bearer " \o Get(creds, "bearer_token", "None"))
        ELSE headers

(* the headers a tool builds inline *)
inline_headers(tool, creds) ==
    LET base == ("Accept" :> "application/json")
                @@ ("x-api-version" :> Get(creds, "cashfree_api_version", "2025-01-01"))
        typed == IF tool \in {"get_order", "get_order_refunds"} THEN base
                 ELSE Put(base, "Content-Type", "application/json")
        headers == IF tool = "get_order" THEN typed ELSE Put(typed, "x-request-id", "uuid4")
    IN  IF AuthMethod(creds) = "client_credentials"
        THEN Put(Put(headers, "x-client-id", Get(creds, "cashfree_client_id", NoneVal)),
                 "x-client-secret", Get(creds, "cashfree_client_secret", NoneVal))
        ELSE IF AuthMethod(creds) = "bearer_token"
        THEN Put(headers, "Authorization", "Bearer " \o Get(creds, "bearer_token", "None"))
        ELSE headers

(* headers["Accept"] = ...; headers["x-request-id"] = ... after get_auth_headers *)
helper_headers(tool, headers) ==
    IF tool \in PayoutTools THEN headers
    ELSE Put(Put(headers, "Accept", "application/json"), "x-request-id", "uuid4")

(* a host choice that never leaves the sandbox *)
api_host_sandbox_only(tool, creds) ==
    IF tool \in PayoutTools THEN PayoutSandbox ELSE PgSandbox

api_host(tool, creds) ==
    LET production == Get(creds, "cashfree_environment", "sandbox") = "production"
    IN  IF tool \in PayoutTools
        THEN (IF production THEN PayoutProd ELSE PayoutSandbox)
        ELSE (IF production THEN PgProd ELSE PgSandbox)

api_path(tool, p) ==
    CASE tool = "create_order" -> <<"/orders">>
      [] tool = "create_payment_link" -> <<"/links">>
      [] tool \in {"create_refund", "create_refund_pg", "get_order_refunds"} ->
            <<"/orders/", p["order_id"], "/refunds">>
      [] tool = "get_order" -> <<"/orders/", p["order_id"]>>
      [] tool = "cancel_payment_link" -> <<"/links/", p["link_id"], "/cancel">>
      [] tool = "get_payment_link_orders" ->
            IF StatusOf(p) /= <<>>
            THEN <<"/links/", p["link_id"], "/orders", "?status=", StatusOf(p)>>
            ELSE <<"/links/", p["link_id"], "/orders">>
      [] tool = "create_cashgram" -> <<"/payout/v1/createCashgram">>
      [] tool = "deactivate_cashgram" -> <<"/payout/v1/deactivateCashgram">>

api_method(tool) ==
    IF tool \in {"get_order", "get_order_refunds", "get_payment_link_orders"}
    THEN "GET" ELSE "POST"

(* float(x): the number sent in the body *)
Float(a) == [cents |-> a.cents, nan |-> a.nan]

(* bool(float(x)) *)
FloatTruthy(a) == a.nan \/ a.cents /= 0

(* request_body[k] = p[k] for the optional keys that are truthy *)
Optional(p, keys) == [k \in {x \in keys : PTruthy(p, x)} |-> p[k]]

(* if meta: request_body[name] = meta *)
Meta(name, meta) == IF DOMAIN meta = {} THEN <<>> ELSE (name :> meta)

request_body(tool, p) ==
    CASE tool = "create_order" ->
            Optional(p, {"order_id", "order_note"})
            @@ Meta("order_meta", Optional(p, {"return_url", "notify_url"}))
            @@ [order_amount |-> Float(p["order_amount"]),
                order_currency |-> Get(p, "order_currency", <<"INR">>),
                customer_details |-> [k \in {"customer_id", "customer_email",
                                             "customer_phone", "customer_name"} |-> p[k]]]
      [] tool = "create_payment_link" ->
            (IF PTruthy(p, "link_partial_payments")
             THEN IF PTruthy(p, "link_minimum_partial_amount")
                     /\ FloatTruthy(p["link_minimum_partial_amount"])
                  THEN [link_partial_payments |-> TRUE,
                        link_minimum_partial_amount |->
                            Float(p["link_minimum_partial_amount"])]
                  ELSE [link_partial_payments |-> TRUE]
             ELSE <<>>)
            @@ Meta("link_meta", Optional(p, {"notify_url", "return_url"}))
            @@ [link_id |-> p["link_id"],
                link_amount |-> Float(p["link_amount"]),
                link_currency |-> Get(p, "link_currency", <<"INR">>),
                link_purpose |-> p["link_purpose"],
                customer_details |-> [customer_phone |-> p["customer_phone"]]]
      [] tool \in {"create_refund", "create_refund_pg"} ->
            Optional(p, {"refund_note"})
            @@ (IF Get(p, "refund_speed", <<"STANDARD">>) /= <<>>
                THEN [refund_speed |-> Get(p, "refund_speed", <<"STANDARD">>)] ELSE <<>>)
            @@ [refund_amount |-> Float(p["refund_amount"]), refund_id |-> p["refund_id"]]
      [] tool = "create_cashgram" ->
            Optional(p, {"email", "remarks"})
            @@ (IF "notifyCustomer" \in DOMAIN p
                THEN [notifyCustomer |-> p["notifyCustomer"]] ELSE <<>>)
            @@ [cashgramId |-> p["cashgramId"], amount |-> Float(p["amount"]),
                name |-> p["name"], phone |-> p["phone"], linkExpiry |-> p["linkExpiry"]]
      [] tool = "deactivate_cashgram" -> [cashgramId |-> p["cashgramId"]]
      [] OTHER -> NoBody

api_request(tool, creds, p, headers) ==
    Request("api", api_method(tool), api_host(tool, creds), api_path(tool, p), headers,
            request_body(tool, p))

----------------------------------------------------------------------------
(* The normalized result record *)
StatusNone == 0 - 1
Result(status_code, success, message) ==
    [status_code |-> status_code, success |-> success, message |-> message]

(* except requests.exceptions.RequestException: status_code 0 *)
NetworkError == Result(0, FALSE, "Network Error: Could not connect to API within timeout.")

(* json.dumps(request_body, allow_nan=False) inside requests.post succeeds *)
Serializable(body) == \A k \in DOMAIN body \cap AmountKeys : ~body[k].nan

(* a result yielded before any response that reports success *)
FailureAsSuccess(message) == Result(StatusNone, TRUE, message)

(* a result yielded before any response: status_code None, success False *)
Failure(message) == Result(StatusNone, FALSE, message)

(* raw_api_data.get(...) works: the JSON body is an object, or a list where *)
(* the tool accepts one                                                    *)
BodyUsable(tool, resp) ==
    \/ resp.body.shape = "object"
    \/ /\ resp.body.shape = "list"
       /\ resp.status = 200
       /\ tool \in {"get_order_refunds", "get_payment_link_orders"}

(* a normalizer that takes a body it cannot parse for a failure *)
normalize_non_json_fails(tool, resp) ==
    IF resp.transport
    THEN [raised |-> FALSE, result |-> NetworkError]
    ELSE IF resp.body.shape = "non_json"
    THEN [raised |-> FALSE,
          result |-> Result(resp.status, FALSE, "API returned non-JSON response")]
    ELSE IF BodyUsable(tool, resp)
    THEN [raised |-> FALSE,
          result |-> Result(resp.status, resp.status = 200,
                            IF resp.status = 200 THEN "success" ELSE "API error")]
    ELSE IF tool = "create_order"
    THEN [raised |-> FALSE, result |-> Result(0, FALSE, "Unexpected Error in Tool")]
    ELSE [raised |-> TRUE, result |-> Failure("AttributeError")]

(* "5. Execute API Call" from the response on: what is yielded, or the     *)
(* exception that leaves _invoke                                           *)
normalize(tool, resp) ==
    IF resp.transport
    THEN [raised |-> FALSE, result |-> NetworkError]
    ELSE IF resp.body.shape = "non_json"
    THEN [raised |-> FALSE,
          result |-> Result(resp.status, resp.status = 200, "API returned non-JSON response")]
    ELSE IF BodyUsable(tool, resp)
    THEN [raised |-> FALSE,
          result |-> Result(resp.status, resp.status = 200,
                            IF resp.status = 200 THEN "success" ELSE "API error")]
    ELSE IF tool = "create_order"
    THEN [raised |-> FALSE, result |-> Result(0, FALSE, "Unexpected Error in Tool")]
    ELSE [raised |-> TRUE, result |-> Failure("AttributeError")]

----------------------------------------------------------------------------
(* The inputs: credentials the host may hold, parameters, clock, responses *)
Without(d, k) == [x \in DOMAIN d \ {k} |-> d[x]]
Vary(base, k, vals) == {Put(base, k, v) : v \in vals}
Field(k, vals) == {<<>>} \cup {(k :> v) : v \in vals}

LongId == RepStr("X", OaepMaxPlain - EpochDigits)
PemGood == <<"BEGIN", "\n", "k1", "\n", "k2", "\n", "END">>
PemMessy == <<" ", "\t", "BEGIN", "k1", "\r", "\n", "\t", "k2", "END", "\n">>
PemBad == <<"BEGIN", "\n", "k1", "zz", "\n", "END">>
PemDirty == <<"BEGIN", "\n", "k1", "!", "k2", "\n", "END">>
PemBare == <<"k1", "\n", "k2">>
PemEc == <<"BEGIN", "\n", "e1", "\n", "END">>

(* a complete configuration, whatever the auth_method *)
CompleteCreds ==
    [cashfree_environment |-> "sandbox", cashfree_client_id |-> "X",
     cashfree_client_secret |-> "Y", cashfree_public_key |-> PemGood,
     bearer_token |-> "T", cashfree_api_version |-> "2023-08-01"]

Deviations(c) ==
    Cardinality({k \in DOMAIN CompleteCreds : k \notin DOMAIN c \/ c[k] /= CompleteCreds[k]})

(* the configurations the host may hold: a complete one with a few fields   *)
(* changed; the public key and the length of the client id are varied only  *)
(* under public_key, the one method whose code reads the key or signs       *)
CredsSet ==
    {c \in {e @@ m @@ i @@ x @@ k @@ b @@ v :
                e \in Field("cashfree_environment", {"sandbox", "production", "staging"}),
                m \in Field("auth_method", {"client_credentials", "bearer_token", "public_key"}),
                i \in Field("cashfree_client_id", {"", "X", LongId}),
                x \in Field("cashfree_client_secret", {"Y"}),
                k \in Field("cashfree_public_key",
                          {PemGood, PemMessy, PemBad, PemDirty, PemBare, PemEc}),
                b \in Field("bearer_token", {"T"}),
                v \in Field("cashfree_api_version", {"2023-08-01"})} :
        /\ Deviations(c) <= MaxDeviations
        /\ Get(c, "auth_method", "client_credentials") /= "public_key" =>
              /\ Get(c, "cashfree_public_key", PemGood) = PemGood
              /\ Get(c, "cashfree_client_id", "X") /= LongId}

Clock == {[day |-> 20000, tod |-> t] : t \in {0, 43200}}
NoClock == [day |-> 0, tod |-> 0]
Epoch(now) == SecondsOf(now.day, now.tod)

Url(scheme, n) == <<scheme>> \o Rep("a", n - CharLen(scheme))
Date(form, day) == [form |-> form, day |-> day]

OrderBase ==
    [order_amount |-> Num(10000), customer_id |-> <<"a", "0">>,
     customer_email |-> <<"a", "@", "a", ".", "a">>, customer_phone |-> <<"0", "0">>,
     customer_name |-> <<"a">>]
LinkBase ==
    [link_id |-> <<"a", "-", "_", "0">>, link_amount |-> Num(10000),
     link_purpose |-> <<"a">>, customer_phone |-> <<"0", "0">>]
RefundBase ==
    [order_id |-> <<"a", "0">>, refund_amount |-> Num(100), refund_id |-> <<"a", "0", "a">>]
CashgramBase ==
    [cashgramId |-> <<"a", "-", "0">>, amount |-> Num(100), name |-> <<"a">>,
     phone |-> <<"+", "0", "0">>, linkExpiry |-> Date("padded", 20029)]

ParamsOf(tool) ==
    CASE tool = "create_order" ->
            {OrderBase, Without(OrderBase, "order_amount"), Without(OrderBase, "customer_id")}
            \cup Vary(OrderBase, "order_amount",
                      {Num(0), Num(50), Num(100), StrNum(10000), StrBad, StrNan})
            \cup Vary(OrderBase, "order_id",
                      {Rep("a", 2), Rep("a", 3), Rep("a", 45), Rep("a", 46),
                       <<"a", "-", "_", "0">>, <<"a", "!", "a">>, <<"a", "a", "a", "\n">>})
            \cup Vary(OrderBase, "order_note", {Rep("a", 2), Rep("a", 200), Rep("a", 201)})
            \cup Vary(OrderBase, "return_url", {Url("http://", 250), Url("http://", 251)})
            \cup Vary(OrderBase, "notify_url",
                      {Url("https://", 250), Url("https://", 251), Url("http://", 20)})
      [] tool = "create_payment_link" ->
            {LinkBase, Without(LinkBase, "link_purpose")}
            \cup Vary(LinkBase, "link_id", {Rep("a", 50), Rep("a", 51), <<"a", "!">>})
            \cup Vary(LinkBase, "link_amount", {Num(0), Num(1), Num(0 - 100), StrBad, StrNan})
            \cup Vary(LinkBase, "link_purpose", {Rep("a", 500), Rep("a", 501)})
            \cup Vary(LinkBase, "link_minimum_partial_amount",
                      {Num(5000), Num(10000), Num(20000), StrBad, StrNan})
            \cup Vary(Put(LinkBase, "link_partial_payments", TRUE),
                      "link_minimum_partial_amount", {Num(5000), Num(10000), StrNan})
            \cup Vary(LinkBase, "return_url", {Url("http://", 251)})
            \cup Vary(LinkBase, "notify_url", {Url("https://", 251), Url("http://", 20)})
      [] tool \in {"create_refund", "create_refund_pg"} ->
            {RefundBase, Without(RefundBase, "refund_id")}
            \cup Vary(RefundBase, "refund_amount", {Num(0), Num(1), StrBad})
            \cup Vary(RefundBase, "refund_id",
                      {Rep("a", 2), Rep("a", 40), Rep("a", 41), <<"a", "-", "a">>,
                       <<"a", "_", "a">>, <<"a", "a", "a", "\n">>})
            \cup Vary(RefundBase, "refund_note", {Rep("a", 2), Rep("a", 100), Rep("a", 101)})
            \cup Vary(RefundBase, "refund_speed",
                      {<<"STANDARD">>, <<"INSTANT">>, <<"FAST">>, <<>>})
      [] tool \in {"get_order", "get_order_refunds"} ->
            {<<>>, [order_id |-> <<"a", "0">>], [order_id |-> <<>>]}
      [] tool = "cancel_payment_link" ->
            {<<>>} \cup Vary(<<>>, "link_id",
                             {<<"a", "-", "_">>, Rep("a", 50), Rep("a", 51), <<"a", "!">>})
      [] tool = "get_payment_link_orders" ->
            {<<>>, [link_id |-> <<"a">>]}
            \cup Vary([link_id |-> <<"a">>], "status",
                      {<<"ALL">>, <<"PAID">>, <<"DUE">>, <<>>})
      [] tool = "create_cashgram" ->
            {CashgramBase, Without(CashgramBase, "phone")}
            \cup Vary(CashgramBase, "cashgramId", {Rep("a", 35), Rep("a", 36), <<"a", "!">>})
            \cup Vary(CashgramBase, "amount", {Num(99), StrBad})
            \cup Vary(CashgramBase, "linkExpiry",
                      {Date("padded", 19999), Date("padded", 20000), Date("padded", 20001),
                       Date("padded", 20030), Date("padded", 20031),
                       Date("unpadded", 20010), Date("garbage", 0)})
            \cup Vary(CashgramBase, "name", {<<" ">>})
            \cup Vary(CashgramBase, "phone", {<<"a">>})
            \cup Vary(CashgramBase, "email", {<<"a", "@", "a", ".", "a">>, <<"a", "@", "a">>})
            \cup Vary(CashgramBase, "notifyCustomer", {TRUE, FALSE})
      [] tool = "deactivate_cashgram" ->
            {<<>>} \cup Vary(<<>>, "cashgramId",
                             {<<"a", "-", "0">>, Rep("a", 35), Rep("a", 36), <<"a", "!">>})

(* what the authorize endpoint may answer; tok is the token it would issue *)
AuthBody(shape, data, hasToken, token) ==
    [shape |-> shape, data |-> data, hasToken |-> hasToken, token |-> token]

AuthResponses(tok) ==
    {TransportFailure,
     HttpResp(200, AuthBody("object", "object", TRUE, tok)),
     HttpResp(200, AuthBody("object", "object", TRUE, "")),
     HttpResp(200, AuthBody("object", "object", TRUE, NumberVal)),
     HttpResp(200, AuthBody("object", "object", FALSE, "")),
     HttpResp(200, AuthBody("object", "absent", FALSE, "")),
     HttpResp(200, AuthBody("object", "null", FALSE, "")),
     HttpResp(200, AuthBody("list", "absent", FALSE, "")),
     HttpResp(200, AuthBody("non_json", "absent", FALSE, "")),
     HttpResp(401, AuthBody("object", "object", TRUE, tok)),
     HttpResp(500, AuthBody("non_json", "absent", FALSE, ""))}

ApiResponses ==
    {TransportFailure}
    \cup {HttpResp(st, [shape |-> sh]) :
            st \in {200, 400}, sh \in {"object", "list", "null", "non_json"}}

(* does the response carry a token the server issued *)
Issues(resp) ==
    /\ ~resp.transport
    /\ resp.body.shape = "object" /\ resp.body.data = "object"
    /\ resp.body.hasToken /\ resp.body.token \notin {"", NumberVal}

----------------------------------------------------------------------------
(* State *)
NoExc == [type |-> "none", message |-> ""]
Exc(type, message) == [type |-> type, message |-> message]

NoInv ==
    [tool |-> "none", params |-> <<>>, now |-> NoClock, incl |-> FALSE, payout |-> FALSE,
     headers |-> <<>>]

Init ==
    /\ credentials \in CredsSet
    /\ pc = "idle"
    /\ inv = NoInv
    /\ net = <<>>
    /\ results = <<>>
    /\ outcome = "none"
    /\ exc = NoExc
    /\ authSeq = 0
    /\ lastToken = ""

(* the invocation yields its result and ends *)
Emit(r) ==
    /\ results' = Append(results, r)
    /\ outcome' = "returned"
    /\ exc' = NoExc
    /\ pc' = "done"

(* the exception leaves the call; nothing is yielded *)
Raise(e) ==
    /\ results' = results
    /\ outcome' = "raised"
    /\ exc' = e
    /\ pc' = "done"

(* requests.post / requests.get of the target API: the request leaves, or   *)
(* its body cannot be serialized and the RequestException is handled        *)
CallApi(log, req) ==
    IF Serializable(req.body)
    THEN /\ net' = Send(log, req)
         /\ pc' = "await_api" /\ UNCHANGED <<results, outcome, exc>>
    ELSE /\ net' = log
         /\ Emit(NetworkError)

(* Tool._invoke up to its first HTTP request, or to its end *)
Invoke(tool, p, now) ==
    /\ pc = "idle"
    /\ authSeq < MaxExchanges
    /\ UNCHANGED <<credentials, authSeq, lastToken>>
    /\ LET rec(h) == [tool |-> tool, params |-> p,
                      now |-> IF tool \in PayoutTools THEN now ELSE NoClock,
                      incl |-> tool \notin PayoutTools, payout |-> tool \in PayoutTools,
                      headers |-> h]
           g == get_auth_headers(credentials, tool \notin PayoutTools, tool \in PayoutTools,
                                 Epoch(now))
       IN  IF validate(tool, p, now) /= ""
           THEN /\ Emit(Failure(validate(tool, p, now)))
                /\ inv' = rec(<<>>) /\ net' = net
           ELSE IF check_credentials(tool, credentials) /= ""
           THEN /\ Emit(Failure(check_credentials(tool, credentials)))
                /\ inv' = rec(<<>>) /\ net' = net
           ELSE IF tool \in InlineTools
           THEN /\ CallApi(net, api_request(tool, credentials, p,
                                            inline_headers(tool, credentials)))
                /\ inv' = rec(<<>>)
           ELSE IF g.step = "raise"
           THEN /\ Emit(Failure("Fatal Error: Authentication failed: " \o g.err))
                /\ inv' = rec(<<>>) /\ net' = net
           ELSE IF g.step = "authorize"
           THEN /\ net' = Send(net, g.req)
                /\ inv' = rec(g.headers)
                /\ pc' = "await_auth" /\ UNCHANGED <<results, outcome, exc>>
           ELSE /\ CallApi(net, api_request(tool, credentials, p,
                                            helper_headers(tool, g.headers)))
                /\ inv' = rec(<<>>)

(* a direct call of get_auth_headers, as the scripts under src/ make it *)
CallGetAuthHeaders(include_api_version, is_payout_api, now) ==
    /\ pc = "idle"
    /\ authSeq < MaxExchanges
    /\ UNCHANGED <<credentials, authSeq, lastToken, results>>
    /\ LET g == get_auth_headers(credentials, include_api_version, is_payout_api, Epoch(now))
           rec(h) == [tool |-> "get_auth_headers", params |-> <<>>,
                      now |-> IF g.step = "authorize" THEN now ELSE NoClock,
                      incl |-> include_api_version, payout |-> is_payout_api, headers |-> h]
       IN  IF g.step = "authorize"
           THEN /\ net' = Send(net, g.req)
                /\ inv' = rec(g.headers)
                /\ pc' = "await_auth" /\ UNCHANGED <<outcome, exc>>
           ELSE /\ net' = net
                /\ inv' = rec(g.headers)
                /\ pc' = "done"
                /\ outcome' = IF g.step = "return" THEN "returned" ELSE "raised"
                /\ exc' = IF g.step = "return" THEN NoExc
                          ELSE Exc(IF g.err = "KeyError" THEN "KeyError" ELSE "Exception", g.err)

(* the authorize response arrives: the rest of get_bearer_token and of      *)
(* get_auth_headers, then the caller up to its request or its end           *)
AuthorizeResponse(resp) ==
    /\ pc = "await_auth"
    /\ authSeq' = IF Issues(resp) THEN authSeq + 1 ELSE authSeq
    /\ lastToken' = IF Issues(resp) THEN resp.body.token ELSE lastToken
    /\ credentials' = credentials_after_authorize(credentials, BearerTokenResult(resp).token)
    /\ IF inv.tool = "get_auth_headers"
       THEN /\ net' = Receive(net, resp)
            /\ inv' = IF BearerTokenResult(resp).ok
                      THEN [inv EXCEPT !.headers =
                               WithBearer(inv.headers, BearerTokenResult(resp).token)]
                      ELSE inv
            /\ pc' = "done" /\ results' = results
            /\ outcome' = IF BearerTokenResult(resp).ok THEN "returned" ELSE "raised"
            /\ exc' = IF BearerTokenResult(resp).ok THEN NoExc
                      ELSE Exc("Exception", BearerTokenResult(resp).err)
       ELSE IF BearerTokenResult(resp).ok
       THEN /\ CallApi(Receive(net, resp),
                       api_request(inv.tool, credentials, inv.params,
                                   helper_headers(inv.tool,
                                       WithBearer(inv.headers, BearerTokenResult(resp).token))))
            /\ inv' = inv
       ELSE /\ net' = Receive(net, resp)
            /\ Emit(Failure("Fatal Error: Authentication failed: "
                            \o BearerTokenResult(resp).err))
            /\ inv' = inv

(* the response of the target API arrives: the rest of _invoke *)
ApiResponse(resp) ==
    /\ pc = "await_api"
    /\ net' = Receive(net, resp)
    /\ UNCHANGED <<credentials, inv, authSeq, lastToken>>
    /\ IF normalize(inv.tool, resp).raised
       THEN Raise(Exc("AttributeError", "object has no attribute 'get'"))
       ELSE Emit(normalize(inv.tool, resp).result)

(* the host validates the credentials it holds *)
ValidateCredentials ==
    /\ pc = "idle"
    /\ inv' = [NoInv EXCEPT !.tool = "validate_credentials"]
    /\ pc' = "done"
    /\ results' = results
    /\ outcome' = IF validate_credentials(credentials) = NoExc THEN "returned" ELSE "raised"
    /\ exc' = validate_credentials(credentials)
    /\ UNCHANGED <<credentials, net, authSeq, lastToken>>

(* the host takes the result; the next invocation starts from nothing *)
Return ==
    /\ pc = "done"
    /\ pc' = "idle"
    /\ inv' = NoInv /\ net' = <<>> /\ results' = <<>> /\ outcome' = "none" /\ exc' = NoExc
    /\ UNCHANGED <<credentials, authSeq, lastToken>>

Token(n) == "tok" \o ToString(n)

(* the times a call may see: only the payout path reads the clock (the      *)
(* expiry check of create_cashgram, the timestamp of the signature)         *)
ClockRead(is_payout) == {now \in Clock : is_payout \/ now.tod = 0}

Next ==
    \/ \E tool \in Tools : \E p \in ParamsOf(tool) : \E now \in ClockRead(tool \in PayoutTools) :
            Invoke(tool, p, now)
    \/ \E i \in BOOLEAN, o \in BOOLEAN : \E now \in ClockRead(o) : CallGetAuthHeaders(i, o, now)
    \/ \E resp \in AuthResponses(Token(authSeq + 1)) : AuthorizeResponse(resp)
    \/ \E resp \in ApiResponses : ApiResponse(resp)
    \/ ValidateCredentials
    \/ Return

Spec == Init /\ [][Next]_vars

----------------------------------------------------------------------------
(* What the properties below observe *)
Has(h, k) == k \in DOMAIN h

StartsWith(s, prefix) == Len(s) >= Len(prefix) /\ SubSeq(s, 1, Len(prefix)) = prefix

(* a direct call of get_auth_headers has ended *)
DirectCallDone == inv.tool = "get_auth_headers" /\ pc = "done"
DirectCallReturned == DirectCallDone /\ outcome = "returned"

(* the requests of the running invocation, by endpoint *)
AuthorizeRequests == {i \in DOMAIN net : net[i].req.kind = "authorize"}
ApiRequests == {i \in DOMAIN net : net[i].req.kind = "api"}

(* the running invocation yielded exactly one result, a failure *)
YieldedFailure ==
    /\ pc = "done" /\ outcome = "returned"
    /\ Len(results) = 1 /\ results[1].success = FALSE

(* the authorize response is HTTP 200 with a non-empty string at data.token *)
CarriesToken(resp) ==
    /\ resp.received /\ ~resp.transport
    /\ resp.status = 200
    /\ resp.body.shape = "object" /\ resp.body.data = "object"
    /\ resp.body.hasToken /\ resp.body.token \notin {"", NumberVal}

(* the signature cannot be produced from these credentials *)
SignatureFails(creds) ==
    \/ ~parse_public_key(Get(creds, "cashfree_public_key", NoneKey)).ok
    \/ parse_public_key(Get(creds, "cashfree_public_key", NoneKey)).key /= "K"
    \/ PlainLen(Get(creds, "cashfree_client_id", "None")) > OaepMaxPlain

----------------------------------------------------------------------------
(* C1: under auth_method = public_key, get_auth_headers with                *)
(* is_payout_api = false returns X-Client-Id and X-Client-Secret, no        *)
(* Authorization, and makes no authorize exchange; with is_payout_api =     *)
(* true it returns Authorization: Bearer <the token its exchange fetched>   *)
(* and neither X-Client-Id nor X-Client-Secret.                             *)
C1_PublicKeyHeaders ==
    (AuthMethod(credentials) = "public_key" /\ DirectCallReturned) =>
        IF inv.payout
        THEN /\ Len(net) = 1 /\ net[1].req.kind = "authorize"
             /\ CarriesToken(net[1].resp)
             /\ Has(inv.headers, "Authorization")
             /\ inv.headers["Authorization"] = "Bearer " \o net[1].resp.body.token
             /\ ~Has(inv.headers, "X-Client-Id") /\ ~Has(inv.headers, "X-Client-Secret")
        ELSE /\ net = <<>>
             /\ Has(inv.headers, "X-Client-Id") /\ Has(inv.headers, "X-Client-Secret")
             /\ inv.headers["X-Client-Id"] = credentials["cashfree_client_id"]
             /\ inv.headers["X-Client-Secret"] = credentials["cashfree_client_secret"]
             /\ ~Has(inv.headers, "Authorization")

C1_Witness ==
    /\ AuthMethod(credentials) = "public_key" /\ DirectCallReturned /\ inv.payout
    /\ Has(inv.headers, "Authorization")

(* C2: under auth_method = bearer_token, get_auth_headers returns           *)
(* Authorization: Bearer <the configured token> for both values of          *)
(* is_payout_api.                                                           *)
C2_StaticBearerHeader ==
    (AuthMethod(credentials) = "bearer_token" /\ DirectCallReturned) =>
        /\ Has(inv.headers, "Authorization")
        /\ inv.headers["Authorization"] = "Bearer " \o Get(credentials, "bearer_token", "None")

(* C3: under auth_method = client_credentials, or with auth_method absent,  *)
(* get_auth_headers returns X-Client-Id and X-Client-Secret taken from the  *)
(* credentials for both values of is_payout_api, no Authorization, and      *)
(* sends nothing: no signature is made and no authorize exchange happens.   *)
C3_ClientCredentialsHeaders ==
    (AuthMethod(credentials) = "client_credentials" /\ DirectCallDone) =>
        /\ net = <<>>
        /\ outcome = "returned" =>
              /\ Has(inv.headers, "X-Client-Id") /\ Has(inv.headers, "X-Client-Secret")
              /\ inv.headers["X-Client-Id"] = credentials["cashfree_client_id"]
              /\ inv.headers["X-Client-Secret"] = credentials["cashfree_client_secret"]
              /\ ~Has(inv.headers, "Authorization")
        /\ outcome = "raised" =>
              \/ ~Has(credentials, "cashfree_client_id")
              \/ ~Has(credentials, "cashfree_client_secret")

C3_Witness ==
    /\ ~Has(credentials, "auth_method") /\ DirectCallReturned /\ inv.payout
    /\ Has(credentials, "cashfree_public_key")
    /\ Has(inv.headers, "X-Client-Id")

(* C4: get_auth_headers returns an X-Api-Version header exactly when        *)
(* include_api_version is true and is_payout_api is false, whatever the     *)
(* auth_method; its value is cashfree_api_version, or 2025-01-01 when the   *)
(* credentials have no such field.                                          *)
C4_ApiVersionHeader ==
    DirectCallReturned =>
        /\ Has(inv.headers, "X-Api-Version") <=> (inv.incl /\ ~inv.payout)
        /\ Has(inv.headers, "X-Api-Version") =>
              inv.headers["X-Api-Version"] =
                  (IF Has(credentials, "cashfree_api_version")
                   THEN credentials["cashfree_api_version"] ELSE "2025-01-01")

C4_Witness ==
    /\ DirectCallReturned /\ inv.incl /\ ~inv.payout
    /\ ~Has(credentials, "cashfree_api_version")
    /\ inv.headers["X-Api-Version"] = "2025-01-01"

(* C5: every request a tool sends to the target API carries exactly one     *)
(* authentication scheme: a client-id with a client-secret header, or an    *)
(* Authorization header; never both and never none; for auth_method in      *)
(* client_credentials, bearer_token, public_key.                            *)
C5_ExactlyOneScheme ==
    AuthMethod(credentials) \in {"client_credentials", "bearer_token", "public_key"} =>
        \A i \in ApiRequests :
            LET h == net[i].req.headers
                client == /\ (Has(h, "X-Client-Id") \/ Has(h, "x-client-id"))
                          /\ (Has(h, "X-Client-Secret") \/ Has(h, "x-client-secret"))
                bearer == Has(h, "Authorization")
            IN  (client \/ bearer) /\ ~(client /\ bearer)

(* C6: when a tool's parameter validation fails, the invocation yields one  *)
(* failure result with success = false and sends no request: neither to     *)
(* the target API nor to the authorize endpoint.                            *)
C6_ValidationBeforeNetwork ==
    (inv.tool \in Tools /\ validate(inv.tool, inv.params, inv.now) /= "") =>
        /\ net = <<>>
        /\ YieldedFailure
        /\ results[1].message = validate(inv.tool, inv.params, inv.now)

C6_Witness ==
    /\ inv.tool = "create_cashgram" /\ AuthMethod(credentials) = "public_key"
    /\ ~SignatureFails(credentials)
    /\ validate(inv.tool, inv.params, inv.now) /= ""
    /\ pc = "done"

(* C7: in a tool that calls get_auth_headers, when header construction      *)
(* fails (key not parseable, encryption fails, authorize transport failure, *)
(* authorize non-200, no token in the authorize response) the invocation    *)
(* yields one failure result whose message reports the authentication       *)
(* failure, and no request goes to the target API.                          *)
C7_AuthFailureIsFatal ==
    LET exchanged == net /= <<>> /\ net[1].req.kind = "authorize" /\ net[1].resp.received
        exchangeFailed == exchanged /\ ~CarriesToken(net[1].resp)
        signatureFailed ==
            /\ inv.tool \in PayoutTools /\ AuthMethod(credentials) = "public_key"
            /\ validate(inv.tool, inv.params, inv.now) = ""
            /\ check_credentials(inv.tool, credentials) = ""
            /\ SignatureFails(credentials)
    IN  (inv.tool \in HelperTools /\ (exchangeFailed \/ signatureFailed)) =>
            /\ YieldedFailure
            /\ StartsWith(results[1].message, "Fatal Error: Authentication failed")
            /\ ApiRequests = {}
            /\ signatureFailed => net = <<>>

C7_Witness ==
    /\ inv.tool = "deactivate_cashgram" /\ pc = "done"
    /\ net /= <<>> /\ net[1].resp.received /\ ~net[1].resp.transport
    /\ net[1].resp.status = 401

(* C8: get_bearer_token returns a token exactly when the authorize response *)
(* is HTTP 200 with a non-empty data.token, and then returns that very      *)
(* token; on 200 without data.token, on another status, on a transport      *)
(* failure and on a signature failure it raises and returns nothing.        *)
C8_TokenIffOkResponse ==
    /\ \A i \in AuthorizeRequests :
          net[i].resp.received =>
              LET bearer == "Bearer " \o net[i].resp.body.token
                  direct == inv.tool = "get_auth_headers"
              IN  IF CarriesToken(net[i].resp)
                  THEN IF direct
                       THEN /\ outcome = "returned"
                            /\ Has(inv.headers, "Authorization")
                            /\ inv.headers["Authorization"] = bearer
                       ELSE /\ Len(net) = i + 1
                            /\ net[i + 1].req.headers["Authorization"] = bearer
                  ELSE IF direct
                       THEN outcome = "raised" /\ ~Has(inv.headers, "Authorization")
                       ELSE /\ Len(net) = i /\ YieldedFailure
                            /\ StartsWith(results[1].message,
                                   "Fatal Error: Authentication failed: Bearer token retrieval failed")
    /\ (/\ DirectCallDone /\ inv.payout /\ AuthMethod(credentials) = "public_key"
        /\ SignatureFails(credentials)) =>
          net = <<>> /\ outcome = "raised" /\ ~Has(inv.headers, "Authorization")

C8_Witness ==
    /\ DirectCallReturned /\ net /= <<>> /\ CarriesToken(net[1].resp)
    /\ inv.headers["Authorization"] = "Bearer " \o net[1].resp.body.token

(* C9: nothing is retried: one invocation sends at most one request to the  *)
(* authorize endpoint and at most one to the target API, whatever the       *)
(* answers are.                                                             *)
C9_NoRetry ==
    /\ Cardinality(AuthorizeRequests) <= 1
    /\ Cardinality(ApiRequests) <= 1

C9_Witness ==
    /\ pc = "done" /\ Len(net) = 2
    /\ net[1].req.kind = "authorize" /\ net[2].req.kind = "api"
    /\ net[2].resp.transport

(* C10: tokens are not cached: a payout tool under public_key that reaches  *)
(* the target API has sent its own authorize request, signed for its own    *)
(* time, and presents the token that this exchange returned, which no       *)
(* earlier invocation obtained.                                             *)
C10_FreshTokenEachInvocation ==
    (inv.tool \in PayoutTools /\ AuthMethod(credentials) = "public_key" /\ ApiRequests /= {}) =>
        /\ Len(net) = 2 /\ net[1].req.kind = "authorize" /\ net[2].req.kind = "api"
        /\ net[1].req.headers["X-Cf-Signature"] =
              generate_signature(Get(credentials, "cashfree_client_id", NoneVal),
                                 Get(credentials, "cashfree_public_key", NoneKey),
                                 Epoch(inv.now)).sig
        /\ CarriesToken(net[1].resp)
        /\ net[2].req.headers["Authorization"] = "Bearer " \o net[1].resp.body.token
        /\ net[1].resp.body.token = Token(authSeq)
        /\ lastToken = Token(authSeq)

C10_Witness ==
    /\ inv.tool \in PayoutTools /\ AuthMethod(credentials) = "public_key"
    /\ pc = "await_api" /\ authSeq = 2

----------------------------------------------------------------------------
(* C11: no error escapes a tool: whatever the parameters and whatever the   *)
(* server answers (any status, a JSON body of any shape, a non-JSON body,   *)
(* a transport failure), the invocation ends with a result record and       *)
(* never with an exception reaching the host.                               *)
C11_NoErrorEscapes ==
    inv.tool \in Tools => (outcome /= "raised" /\ exc = NoExc)

(* C12: every tool invocation yields exactly one result message, on every   *)
(* path: never none and never two.                                          *)
C12_ExactlyOneResult ==
    (inv.tool \in Tools /\ pc = "done") => Len(results) = 1

(* C13: in every yielded result, status_code = 0 exactly when an HTTP call  *)
(* of the invocation (the authorize call included) got no HTTP response;    *)
(* a result after a received response, or with no call sent, is never 0.    *)
(* (Invocations whose request body cannot be serialized are left aside.)    *)
C13_StatusZeroIffTransportFailure ==
    (/\ inv.tool \in Tools
     /\ \/ validate(inv.tool, inv.params, inv.now) /= ""
        \/ Serializable(request_body(inv.tool, inv.params))) =>
        \A i \in DOMAIN results :
            results[i].status_code = 0 <=>
                \E j \in DOMAIN net : net[j].resp.received /\ net[j].resp.transport

----------------------------------------------------------------------------
(* the credential validator has run *)
Validated == inv.tool = "validate_credentials" /\ pc = "done"

EnvironmentValid ==
    /\ Has(credentials, "cashfree_environment")
    /\ credentials["cashfree_environment"] \in {"sandbox", "production"}

(* C14: the credential validator accepts auth_method = bearer_token when    *)
(* the environment is valid and the static token is present, and rejects    *)
(* it when the token is missing.                                            *)
C14_ValidatorAcceptsBearerToken ==
    (Validated /\ AuthMethod(credentials) = "bearer_token" /\ EnvironmentValid) =>
        (outcome = "returned" <=> Truthy(credentials, "bearer_token"))

(* C15: for auth_method client_credentials or public_key the validator      *)
(* accepts exactly when the environment is sandbox or production, the       *)
(* client id and secret are non-empty and, for public_key, the public key   *)
(* is non-empty and parses; otherwise it raises a validation error, and     *)
(* the environment is checked before anything of the method.                *)
C15_ValidatorAcceptance ==
    (Validated /\ AuthMethod(credentials) \in {"client_credentials", "public_key"}) =>
        LET complete ==
                /\ Truthy(credentials, "cashfree_client_id")
                /\ Truthy(credentials, "cashfree_client_secret")
                /\ AuthMethod(credentials) = "public_key" =>
                      /\ Truthy(credentials, "cashfree_public_key")
                      /\ parse_public_key(credentials["cashfree_public_key"]).ok
        IN  /\ outcome = "returned" <=> (EnvironmentValid /\ complete)
            /\ outcome /= "returned" =>
                  /\ outcome = "raised"
                  /\ exc.type = "ToolProviderCredentialValidationError"
            /\ ~EnvironmentValid =>
                  exc.message \in {"Missing required field: cashfree_environment",
                                   "Environment must be 'sandbox' or 'production'"}

C15_Witness ==
    /\ Validated /\ outcome = "returned"
    /\ AuthMethod(credentials) = "public_key"
    /\ EnvironmentValid
    /\ Get(credentials, "cashfree_public_key", <<>>) = PemMessy

(* C16: credential validation sends nothing over the network, and every     *)
(* rejection is a ToolProviderCredentialValidationError: no other           *)
(* exception type leaves the validator, whatever the credentials.           *)
C16_ValidatorOfflineAndTyped ==
    Validated =>
        /\ net = <<>>
        /\ outcome \in {"returned", "raised"}
        /\ outcome = "returned" => exc = NoExc
        /\ outcome = "raised" => exc.type = "ToolProviderCredentialValidationError"

C16_Witness ==
    /\ Validated /\ AuthMethod(credentials) = "public_key"
    /\ Has(credentials, "cashfree_public_key") /\ credentials["cashfree_public_key"] = PemBad
    /\ exc.message = "Invalid public key format"

----------------------------------------------------------------------------
(* every character of s is in the class *)
OnlyChars(s, class) == \A i \in 1..Len(s) : s[i] \in class

LenWithin(s, lo, hi) == lo <= StrLen(s) /\ StrLen(s) <= hi

(* the invocation ended in a failure result without sending anything *)
RejectedOffline == net = <<>> /\ YieldedFailure

(* C17: create_order sends a request only if order_amount is a number >= 1, *)
(* order_id (when given) has 3 to 45 characters all in [A-Za-z0-9_-],       *)
(* order_note (when given) has 3 to 200 characters, return_url and          *)
(* notify_url (when given) have at most 250, and notify_url (when given)    *)
(* starts with https://; order_amount = 0 and order_id = 'ab' each give a   *)
(* validation failure with no HTTP call.                                    *)
C17_CreateOrderSendsOnlyValid ==
    inv.tool = "create_order" =>
        LET p == inv.params
            given(k) == PTruthy(p, k)
        IN  /\ net /= <<>> =>
                  /\ p["order_amount"].ok /\ ~p["order_amount"].nan
                  /\ p["order_amount"].cents >= 100
                  /\ given("order_id") =>
                        LenWithin(p["order_id"], 3, 45) /\ OnlyChars(p["order_id"], IdChars)
                  /\ given("order_note") => LenWithin(p["order_note"], 3, 200)
                  /\ given("return_url") => StrLen(p["return_url"]) <= 250
                  /\ given("notify_url") =>
                        StrLen(p["notify_url"]) <= 250 /\ Head(p["notify_url"]) = "https://"
            /\ (\/ ("order_amount" \in DOMAIN p /\ p["order_amount"] = Num(0))
                \/ ("order_id" \in DOMAIN p /\ p["order_id"] = <<"a", "a">>)) =>
                  RejectedOffline

(* C18: both create_refund tools reject, without an HTTP call, every        *)
(* refund_id holding a hyphen, an underscore or any other non-alphanumeric  *)
(* character, or of a length outside 3 to 40; create_payment_link and       *)
(* cancel_payment_link accept a link_id of 1 to 50 characters that holds    *)
(* hyphens and underscores.                                                 *)
C18_IdentifierRules ==
    LET p == inv.params
        linkRejected ==
            /\ pc = "done" /\ results /= <<>>
            /\ results[1].message \in
                  {"Fatal Error: link_id must be between 1 and 50 characters",
                   "Fatal Error: link_id can only contain alphanumeric characters, '_' and '-'",
                   "Fatal Error: link_id is required"}
    IN  /\ (/\ inv.tool \in {"create_refund", "create_refund_pg"}
            /\ PTruthy(p, "refund_id")
            /\ ~(OnlyChars(p["refund_id"], Alnum) /\ LenWithin(p["refund_id"], 3, 40))) =>
              RejectedOffline
        /\ (/\ inv.tool \in {"create_payment_link", "cancel_payment_link"}
            /\ PTruthy(p, "link_id")
            /\ OnlyChars(p["link_id"], IdChars) /\ LenWithin(p["link_id"], 1, 50)) =>
              ~linkRejected

(* C19: create_cashgram passes the linkExpiry check exactly when linkExpiry *)
(* is a well-formed date strictly after the current date and at most 30     *)
(* days ahead, at every time of day: today fails, 31 days ahead fails, 1 to *)
(* 30 days ahead pass, and a malformed date fails with the format error.    *)
C19_LinkExpiryWindow ==
    LET p == inv.params
        reached ==
            /\ \A k \in {"cashgramId", "amount", "name", "phone", "linkExpiry"} : PTruthy(p, k)
            /\ LenWithin(p["cashgramId"], 1, 35) /\ OnlyChars(p["cashgramId"], IdChars)
            /\ p["amount"].ok /\ ~p["amount"].nan /\ p["amount"].cents >= 100
        wellFormed == p["linkExpiry"].form /= "garbage"
        ahead == p["linkExpiry"].day - inv.now.day
        message == IF pc = "done" /\ results /= <<>> THEN results[1].message ELSE ""
        formatError == "Fatal Error: linkExpiry must be in YYYY/MM/DD format"
        rejected == message \in {formatError,
                                 "Fatal Error: linkExpiry must be a future date",
                                 "Fatal Error: linkExpiry cannot be more than 30 days from today"}
    IN  (inv.tool = "create_cashgram" /\ reached) =>
            /\ ~rejected <=> (wellFormed /\ 1 <= ahead /\ ahead <= 30)
            /\ ~wellFormed => message = formatError
            /\ rejected => net = <<>>

C19_Witness ==
    /\ inv.tool = "create_cashgram" /\ net /= <<>>
    /\ inv.params["linkExpiry"].day = inv.now.day + 30
    /\ inv.now.tod > 0

(* C20: every request body create_payment_link sends has link_amount > 0    *)
(* and, when it holds link_minimum_partial_amount, that value is strictly   *)
(* below link_amount; a link_amount <= 0, or a supplied minimum partial     *)
(* amount >= link_amount, gives a validation failure with no HTTP call.     *)
C20_LinkAmounts ==
    inv.tool = "create_payment_link" =>
        LET p == inv.params
            supplied(k) == PTruthy(p, k) /\ p[k].ok /\ ~p[k].nan
        IN  /\ \A i \in ApiRequests :
                  LET body == net[i].req.body
                  IN  /\ ~body["link_amount"].nan /\ body["link_amount"].cents > 0
                      /\ "link_minimum_partial_amount" \in DOMAIN body =>
                            /\ ~body["link_minimum_partial_amount"].nan
                            /\ body["link_minimum_partial_amount"].cents
                                  < body["link_amount"].cents
            /\ ("link_amount" \in DOMAIN p /\ p["link_amount"].ok /\ ~p["link_amount"].nan
                /\ p["link_amount"].cents <= 0) => RejectedOffline
            /\ (supplied("link_amount") /\ supplied("link_minimum_partial_amount")
                /\ p["link_minimum_partial_amount"].cents >= p["link_amount"].cents) =>
                  RejectedOffline

C20_Witness ==
    /\ inv.tool = "create_payment_link" /\ ApiRequests /= {}
    /\ "link_minimum_partial_amount" \in DOMAIN net[1].req.body
    /\ net[1].req.body["link_minimum_partial_amount"].cents = 5000

----------------------------------------------------------------------------
(* the host the environment of the credentials selects *)
PayoutHostOf(creds) ==
    IF Has(creds, "cashfree_environment") /\ creds["cashfree_environment"] = "production"
    THEN "https://payout-api.cashfree.com" ELSE "https://payout-gamma.cashfree.com"

PgHostOf(creds) ==
    IF Has(creds, "cashfree_environment") /\ creds["cashfree_environment"] = "production"
    THEN "https://api.cashfree.com/pg" ELSE "https://sandbox.cashfree.com/pg"

(* C21: every request goes to the production host exactly when              *)
(* cashfree_environment is 'production' and to the sandbox host otherwise;  *)
(* Payments tools use the /pg base URL, the cashgram tools and the          *)
(* authorize call the payout base URL.  create_order under                  *)
(* client_credentials {X, Y, sandbox} with valid parameters sends one POST  *)
(* to the sandbox orders URL with client id X, client secret Y and          *)
(* order_amount as a number.                                                *)
C21_HostByEnvironment ==
    /\ \A i \in DOMAIN net :
          net[i].req.host =
              IF net[i].req.kind = "authorize" \/ inv.tool \in PayoutTools
              THEN PayoutHostOf(credentials) ELSE PgHostOf(credentials)
    /\ (/\ inv.tool = "create_order" /\ inv.params = OrderBase
        /\ AuthMethod(credentials) = "client_credentials"
        /\ Get(credentials, "cashfree_environment", "") = "sandbox"
        /\ Get(credentials, "cashfree_client_id", "") = "X"
        /\ Get(credentials, "cashfree_client_secret", "") = "Y") =>
          /\ Len(net) = 1
          /\ net[1].req.method = "POST"
          /\ net[1].req.host = "https://sandbox.cashfree.com/pg"
          /\ net[1].req.path = <<"/orders">>
          /\ net[1].req.headers["x-client-id"] = "X"
          /\ net[1].req.headers["x-client-secret"] = "Y"
          /\ net[1].req.body["order_amount"] = [cents |-> 10000, nan |-> FALSE]

C21_Witness ==
    /\ inv.tool = "create_cashgram" /\ Len(net) = 2
    /\ net[1].req.host = "https://payout-api.cashfree.com"
    /\ net[2].req.host = "https://payout-api.cashfree.com"
    /\ net[2].req.path = <<"/payout/v1/createCashgram">>

----------------------------------------------------------------------------
(* len(base64.b64decode(s)) for a base64 text of that many characters, '=' included *)
B64DecodedLen(chars, padding) == 3 * (chars \div 4) - padding

(* the client id is one OAEP can encrypt with its timestamp under the key *)
ValidClientId(creds) ==
    /\ Truthy(creds, "cashfree_client_id")
    /\ Len(creds["cashfree_client_id"]) + 1 + EpochDigits <= KeyBytes - 2 * Sha1Bytes - 2

ValidRsaKey(creds) ==
    /\ Has(creds, "cashfree_public_key")
    /\ creds["cashfree_public_key"] \in {PemGood, PemMessy, PemBare}

(* C22: for every valid client_id and syntactically valid RSA public key,   *)
(* generate_signature returns a base64 string whose decoded length is the   *)
(* key's size in bytes, computed over '<client_id>.<unix epoch seconds of   *)
(* the call>'; two calls one second apart produce different ciphertexts.    *)
C22_SignatureOverIdAndEpoch ==
    (ValidClientId(credentials) /\ ValidRsaKey(credentials)) =>
        LET cid == credentials["cashfree_client_id"]
            key == credentials["cashfree_public_key"]
            epoch == SecondsOf(inv.now.day, inv.now.tod)
            g == generate_signature(cid, key, epoch)
        IN  /\ (/\ inv.tool = "get_auth_headers" /\ inv.payout
                /\ AuthMethod(credentials) = "public_key") => AuthorizeRequests /= {}
            /\ \A i \in AuthorizeRequests :
                  /\ net[i].req.headers["X-Cf-Signature"]
                        = "b64(K:" \o cid \o "." \o ToString(epoch) \o ")"
                  /\ g.ok /\ g.sig = net[i].req.headers["X-Cf-Signature"]
                  /\ B64DecodedLen(g.chars, g.padding) = KeyBytes
                  /\ generate_signature(cid, key, epoch + 1).ok
                  /\ generate_signature(cid, key, epoch + 1).sig
                        /= net[i].req.headers["X-Cf-Signature"]

C22_Witness ==
    /\ inv.tool = "get_auth_headers" /\ AuthorizeRequests /= {}
    /\ ValidClientId(credentials)
    /\ Get(credentials, "cashfree_public_key", <<>>) = PemMessy
    /\ inv.now.tod = 43200

----------------------------------------------------------------------------
(* the text with character c inserted after position i *)
Insert(s, i, c) == SubSeq(s, 1, i) \o <<c>> \o SubSeq(s, i + 1, Len(s))

(* the text between the armor lines, line breaks and blanks left out *)
PemBody(text) == SelectSeq(text, LAMBDA c : c \notin WhiteSpace \cup {"BEGIN", "END"})

IsBase64(body) == \A i \in 1..Len(body) : body[i] \in {"k1", "k2", "e1", "zz"}

IsDerPublicKey(body) == body \in {<<"k1", "k2">>, <<"e1">>}

(* the validator reached the parsing of the public key *)
KeyValidated ==
    /\ Validated /\ EnvironmentValid
    /\ AuthMethod(credentials) = "public_key"
    /\ \A f \in {"cashfree_client_id", "cashfree_client_secret", "cashfree_public_key"} :
          Truthy(credentials, f)

(* C23: parse_public_key is insensitive to line breaks and tabs: a newline, *)
(* carriage return or tab inserted anywhere in a PEM text that parses gives *)
(* a text that parses to the same key, with or without the armor; a text    *)
(* whose body is not base64 or does not decode to a DER public key is       *)
(* rejected with an error.                                                  *)
C23_ParseInsensitiveAndStrict ==
    KeyValidated =>
        LET text == credentials["cashfree_public_key"]
        IN  /\ outcome = "returned" =>
                  \A i \in 0..Len(text), c \in {"\n", "\r", "\t"} :
                      /\ parse_public_key(Insert(text, i, c)).ok
                      /\ parse_public_key(Insert(text, i, c)).key = parse_public_key(text).key
            /\ ~(IsBase64(PemBody(text)) /\ IsDerPublicKey(PemBody(text))) =>
                  /\ outcome = "raised"
                  /\ ~parse_public_key(text).ok

----------------------------------------------------------------------------
(* a payout tool runs under public_key authentication *)
PayoutUnderPublicKey ==
    inv.tool \in {"create_cashgram", "deactivate_cashgram"}
    /\ AuthMethod(credentials) = "public_key"

PublicKeyFieldsPresent ==
    \A f \in {"cashfree_client_id", "cashfree_client_secret", "cashfree_public_key"} :
        Truthy(credentials, f)

(* C24: in a payout-tool invocation under public_key the steps come in the  *)
(* order parameter validation, credential presence check, signature         *)
(* generation, authorize POST, target API POST, result emission; the target *)
(* API POST never precedes an authorize response that carries a token, and  *)
(* the X-Cf-Signature sent is the one generated in this invocation.         *)
C24_PayoutStepOrder ==
    PayoutUnderPublicKey =>
        LET invalid == validate(inv.tool, inv.params, inv.now)
            message == IF results /= <<>> THEN results[1].message ELSE ""
        IN  /\ invalid /= "" => (net = <<>> /\ message = invalid)
            /\ (invalid = "" /\ ~PublicKeyFieldsPresent) =>
                  /\ net = <<>>
                  /\ message = "Fatal Error: Missing required fields for public key auth"
            /\ \A i \in AuthorizeRequests :
                  /\ i = 1
                  /\ invalid = "" /\ PublicKeyFieldsPresent
                  /\ net[i].req.method = "POST"
                  /\ net[i].req.headers["X-Cf-Signature"]
                        = "b64(K:" \o credentials["cashfree_client_id"] \o "."
                          \o ToString(SecondsOf(inv.now.day, inv.now.tod)) \o ")"
            /\ \A i \in ApiRequests :
                  /\ i = 2 /\ net[1].req.kind = "authorize"
                  /\ CarriesToken(net[1].resp)
                  /\ net[i].req.method = "POST"
            /\ results /= <<>> =>
                  /\ pc = "done" /\ Len(results) = 1
                  /\ \A i \in DOMAIN net : net[i].resp.received
            /\ (pc = "done" /\ outcome = "returned") => results /= <<>>

C24_Witness ==
    /\ PayoutUnderPublicKey /\ inv.tool = "deactivate_cashgram"
    /\ Len(net) = 2 /\ pc = "done"
    /\ results /= <<>> /\ results[1].success

----------------------------------------------------------------------------
(* the fields the configured auth_method requires *)
RequiredFields(creds) ==
    CASE AuthMethod(creds) = "client_credentials" ->
            {"cashfree_client_id", "cashfree_client_secret"}
      [] AuthMethod(creds) = "public_key" ->
            {"cashfree_client_id", "cashfree_client_secret", "cashfree_public_key"}
      [] AuthMethod(creds) = "bearer_token" -> {"bearer_token"}
      [] OTHER -> {}

(* C25: in every tool, when the credentials lack a field the configured     *)
(* auth_method requires (client id or secret for client_credentials; id,    *)
(* secret or public key for public_key; the static token for bearer_token), *)
(* the invocation emits a failure result with success = false and sends no  *)
(* HTTP request.                                                            *)
C25_MissingFieldStopsInvocation ==
    (/\ inv.tool \in Tools
     /\ \E f \in RequiredFields(credentials) : ~Truthy(credentials, f)) =>
        /\ net = <<>>
        /\ pc = "done" /\ YieldedFailure

----------------------------------------------------------------------------
(* C26: credentials are read-only: no tool invocation and no call of        *)
(* get_auth_headers, get_bearer_token or _validate_credentials changes the  *)
(* credentials map, and nothing an invocation wrote is left for a later     *)
(* one: when the host has taken the result, no request, response, header,   *)
(* result or exception of the ended invocation remains.                     *)
C26_CredentialsReadOnly ==
    [][/\ credentials' = credentials
       /\ pc' = "idle" =>
             /\ inv' = NoInv /\ net' = <<>> /\ results' = <<>>
             /\ outcome' = "none" /\ exc' = NoExc]_vars

C26_Witness ==
    /\ inv.tool = "create_cashgram" /\ pc = "done"
    /\ authSeq = 2 /\ Len(net) = 2
    /\ net[2].req.headers["Authorization"] = "Bearer tok2"
    /\ Get(credentials, "bearer_token", "") = "T"

----------------------------------------------------------------------------
(* the target API answered the running invocation with this status code *)
ApiAnswered(status) ==
    \E i \in ApiRequests :
        /\ net[i].resp.received /\ ~net[i].resp.transport
        /\ net[i].resp.status = status

(* C27: in every result a tool emits, success is true if and only if an     *)
(* HTTP response with status code 200 was received from the target API and  *)
(* status_code is 200, also when the 200 response has a non-JSON body; and  *)
(* every validation, credential, authentication or transport failure result *)
(* has success = false.                                                     *)
C27_SuccessIffOk ==
    inv.tool \in Tools =>
        \A k \in DOMAIN results :
            /\ results[k].success <=> (ApiAnswered(200) /\ results[k].status_code = 200)
            /\ (\E i \in ApiRequests :
                    /\ net[i].resp.received /\ ~net[i].resp.transport
                    /\ net[i].resp.status = 200 /\ net[i].resp.body.shape = "non_json") =>
                  /\ results[k].success /\ results[k].status_code = 200
                  /\ results[k].message = "API returned non-JSON response"
            /\ (\/ ApiRequests = {}
                \/ \E i \in DOMAIN net : net[i].resp.received /\ net[i].resp.transport) =>
                  ~results[k].success

C27_Witness ==
    /\ inv.tool = "get_order" /\ results /= <<>>
    /\ results[1].success
    /\ net[1].resp.body.shape = "non_json"

----------------------------------------------------------------------------
(* C28: within one payout-tool invocation the authorize request and the     *)
(* target API request go to the same environment: both to the production    *)
(* payout host when cashfree_environment is 'production', both to the       *)
(* sandbox payout host for every other value, absent or unrecognised        *)
(* included; a token obtained from one environment is never presented to    *)
(* the other.                                                               *)
C28_OneEnvironmentPerInvocation ==
    inv.tool \in PayoutTools =>
        LET production == Get(credentials, "cashfree_environment", "") = "production"
        IN  /\ \A i \in DOMAIN net :
                  net[i].req.host = IF production THEN "https://payout-api.cashfree.com"
                                    ELSE "https://payout-gamma.cashfree.com"
            /\ \A i \in AuthorizeRequests, j \in ApiRequests :
                  net[i].req.host = net[j].req.host
            /\ \A j \in ApiRequests :
                  Has(net[j].req.headers, "Authorization") =>
                      \E i \in AuthorizeRequests :
                          /\ i < j /\ CarriesToken(net[i].resp)
                          /\ net[j].req.headers["Authorization"]
                                = "Bearer " \o net[i].resp.body.token
                          /\ net[i].req.host = net[j].req.host

C28_Witness ==
    /\ inv.tool = "deactivate_cashgram" /\ Len(net) = 2
    /\ Get(credentials, "cashfree_environment", "") = "staging"
    /\ net[1].req.host = "https://payout-gamma.cashfree.com"
    /\ net[2].req.host = "https://payout-gamma.cashfree.com"

----------------------------------------------------------------------------
(* _validate_credentials accepts the credentials the host holds *)
Accepted == validate_credentials(credentials).type = "none"

CredentialCheckMessages ==
    {"Fatal Error: Cashfree client credentials (Client ID/Secret) are missing.",
     "Fatal Error: Cashfree bearer token is missing.",
     "Fatal Error: Missing required fields for public key auth"}

(* C29: every credentials map _validate_credentials accepts is usable at    *)
(* invocation time: the per-tool credential presence check passes,          *)
(* get_auth_headers with is_payout_api = false never raises and returns     *)
(* X-Client-Id and X-Client-Secret with non-empty values, and with          *)
(* is_payout_api = true it can fail only because of the authorize exchange, *)
(* never because of a missing field or an unparseable key.                  *)
C29_AcceptedCredentialsUsable ==
    Accepted =>
        /\ (inv.tool \in Tools /\ results /= <<>>) =>
              results[1].message \notin CredentialCheckMessages
        /\ (DirectCallDone /\ ~inv.payout) =>
              /\ outcome = "returned"
              /\ Has(inv.headers, "X-Client-Id") /\ inv.headers["X-Client-Id"] /= ""
              /\ Has(inv.headers, "X-Client-Secret") /\ inv.headers["X-Client-Secret"] /= ""
        /\ (DirectCallDone /\ inv.payout /\ outcome = "raised") =>
              /\ AuthorizeRequests /= {}
              /\ \E i \in AuthorizeRequests :
                    net[i].resp.received /\ ~CarriesToken(net[i].resp)

----------------------------------------------------------------------------
(* a header name in lower case *)
LowerName(k) ==
    CASE k = "X-Client-Id" -> "x-client-id"
      [] k = "X-Client-Secret" -> "x-client-secret"
      [] k = "X-Api-Version" -> "x-api-version"
      [] k = "Content-Type" -> "content-type"
      [] k = "Accept" -> "accept"
      [] k = "Authorization" -> "authorization"
      [] OTHER -> k

(* the values the headers give a name, whatever its case *)
HeaderValues(h, name) == {h[k] : k \in {x \in DOMAIN h : LowerName(x) = name}}

(* what the other create_refund implementation does with the same input *)
OtherRefund(tool) == IF tool = "create_refund" THEN "create_refund_pg" ELSE "create_refund"

OtherRefundStops(tool, creds, p, now) ==
    IF validate(tool, p, now) /= "" THEN validate(tool, p, now)
    ELSE IF check_credentials(tool, creds) /= "" THEN check_credentials(tool, creds)
    ELSE IF tool = "create_refund" /\ get_auth_headers(creds, TRUE, FALSE, 0).step = "raise"
    THEN "Fatal Error: Authentication failed: " \o get_auth_headers(creds, TRUE, FALSE, 0).err
    ELSE ""

OtherRefundRequest(tool, creds, p) ==
    api_request(tool, creds, p,
                IF tool = "create_refund"
                THEN helper_headers(tool, get_auth_headers(creds, TRUE, FALSE, 0).headers)
                ELSE inline_headers(tool, creds))

(* C30: the two create_refund implementations are equivalent under          *)
(* client_credentials: for every tool_parameters map and every server       *)
(* response they take the same validation decision, send a request to the   *)
(* same URL with the same body and the same client-id, client-secret and    *)
(* API-version header values (names compared case-insensitively), and emit  *)
(* the same result record.                                                  *)
C30_RefundImplementationsAgree ==
    (/\ inv.tool \in {"create_refund", "create_refund_pg"}
     /\ AuthMethod(credentials) = "client_credentials") =>
        LET other == OtherRefund(inv.tool)
            stops == OtherRefundStops(other, credentials, inv.params, inv.now)
            req == OtherRefundRequest(other, credentials, inv.params)
        IN  /\ net = <<>> <=> stops /= ""
            /\ net = <<>> => results = <<Result(0 - 1, FALSE, stops)>>
            /\ net /= <<>> =>
                  /\ Len(net) = 1
                  /\ net[1].req.method = req.method
                  /\ net[1].req.host = req.host /\ net[1].req.path = req.path
                  /\ net[1].req.body = req.body
                  /\ \A name \in {"x-client-id", "x-client-secret", "x-api-version"} :
                        /\ Cardinality(HeaderValues(net[1].req.headers, name)) = 1
                        /\ HeaderValues(net[1].req.headers, name)
                              = HeaderValues(req.headers, name)
            /\ (net /= <<>> /\ pc = "done") =>
                  IF normalize(other, net[1].resp).raised
                  THEN outcome = "raised" /\ results = <<>>
                  ELSE results = <<normalize(other, net[1].resp).result>>

C30_Witness ==
    /\ inv.tool = "create_refund" /\ AuthMethod(credentials) = "client_credentials"
    /\ ~Has(credentials, "cashfree_api_version")
    /\ pc = "done" /\ Len(net) = 1 /\ results /= <<>> /\ results[1].success
    /\ Has(net[1].req.headers, "X-Api-Version")
====
